---- MODULE Spec2Model ----
(***************************************************************************)
(* The statistics dashboard of dejaview: the tables the StatsRepository    *)
(* reads (persons, entries, ratings, movies), its SQL queries as           *)
(* operators over those tables, and StatsHandler.buildStatsData as the     *)
(* action StatsPage that assembles the report of one request.              *)
(*                                                                         *)
(* Numbers.  SQL AVG and the float64 metrics are exact rationals           *)
(* <<numerator, denominator>> in lowest terms with a positive denominator. *)
(* A standard deviation (STDDEV_POP, RatingStdDev) is carried as its       *)
(* square, the population variance: the square root is strictly increasing *)
(* on the non-negative numbers, so every comparison the code makes between *)
(* two standard deviations, or a standard deviation and a constant c >= 0, *)
(* is the same comparison of the squares with c * c.                       *)
(*                                                                         *)
(* Beside the dashboard the module holds four smaller state machines, each *)
(* with its own specification: RatingHandler.SaveRatings against the       *)
(* tables (SpecSaveRatings), two concurrent calls of a repository's Update *)
(* on one row (SpecUpdate), the drag-and-drop script of a group page       *)
(* (SpecDragDrop), and EntryHandler.Update and EntryHandler.Reorder        *)
(* (SpecEntryHandler).  The variables of a machine keep their idle value   *)
(* in the specifications of the others.                                    *)
(*                                                                         *)
(* Iteration order.  Go does not specify the order of `range` over a map,  *)
(* SQL does not specify the order of rows that tie under ORDER BY nor the  *)
(* row LIMIT 1 keeps.  Each is a nondeterministic choice of the request.   *)
(***************************************************************************)
EXTENDS Integers, Sequences, FiniteSets, TLC

VARIABLES persons, entries, ratings, statsData,
          request, pending, existingRatings, calls, status, pc,
          stored, updates,
          grid, listeners, page, draggedItem, gestures, posts

\* the tables of the database
dbVars == <<persons, entries, ratings>>

\* one request to a handler that writes: the request, the form fields its
\* loop has still to visit, the handler's local existingRatings, the
\* repository calls made so far, the status written (0: none) and the
\* handler's position
httpVars == <<request, pending, existingRatings, calls, status, pc>>

\* the row two calls of a repository's Update work on, and the calls
repoVars == <<stored, updates>>

\* the page of a group in the browser: the items of the grid in DOM order,
\* the dragend listeners on each, the page's life cycle, the item being
\* dragged, the drag gestures completed and the POST requests sent
domVars == <<grid, listeners, page, draggedItem, gestures, posts>>

vars == <<persons, entries, ratings, statsData,
          request, pending, existingRatings, calls, status, pc,
          stored, updates,
          grid, listeners, page, draggedItem, gestures, posts>>

\* uuid.Nil / SQL NULL / a nil pointer
NULL == 0

---------------------------------------------------------------------------
\* Bounds of the inputs

\* the entries of a snapshot that varies the pick structure
MaxPickEntries == 3
\* its round numbers are 1..MaxGroup
MaxGroup == 2
\* its positions within a round are among 1..MaxPosition
MaxPosition == 2
\* the sizes of its persons table
PickPersonCounts == {0, 1, 2}
\* HAVING COUNT(*) = 4: the number of ratings of a "fully rated" entry
FullyRatedCount == 4
\* the entries of a snapshot that varies the ratings or the movies
RatedEntryCounts == {1, 2}
\* the scores ratings are drawn from (the handler admits 0.0 .. 10.0)
Scores == {0, 2}
\* the movies table: release_year and runtime_minutes are nullable
Movies ==
    <<[release_year |-> 1990, runtime_minutes |-> 100],
      [release_year |-> 2020, runtime_minutes |-> 45],
      [release_year |-> NULL, runtime_minutes |-> NULL]>>

---------------------------------------------------------------------------
\* Rational arithmetic

RECURSIVE GCD(_, _)
GCD(a, b) == IF b = 0 THEN a ELSE GCD(b, a % b)

Abs(x) == IF x < 0 THEN -x ELSE x

Rat(n, d) ==
    LET g == GCD(Abs(n), Abs(d))
        s == IF d < 0 THEN -1 ELSE 1
    IN  <<(s * n) \div g, (s * d) \div g>>

Int2Rat(n) == <<n, 1>>

RAdd(a, b) == Rat(a[1] * b[2] + b[1] * a[2], a[2] * b[2])
RSub(a, b) == Rat(a[1] * b[2] - b[1] * a[2], a[2] * b[2])
RMul(a, b) == Rat(a[1] * b[1], a[2] * b[2])
RDivInt(a, k) == Rat(a[1], a[2] * k)
RAbs(a) == <<Abs(a[1]), a[2]>>
RLess(a, b) == a[1] * b[2] < b[1] * a[2]
RGreater(a, b) == RLess(b, a)
RZero == <<0, 1>>

\* sum of f[x] (rationals) over the finite set S
RECURSIVE RSum(_, _)
RSum(f, S) ==
    IF S = {} THEN RZero
    ELSE LET x == CHOOSE y \in S : TRUE IN RAdd(f[x], RSum(f, S \ {x}))

\* SQL AVG(f) over the rows S (S non-empty)
Avg(f, S) == RDivInt(RSum(f, S), Cardinality(S))

\* SQL STDDEV_POP(f) over the rows S, squared: mean of squares minus square of mean
VarPop(f, S) ==
    LET sq == [x \in S |-> RMul(f[x], f[x])]
        m == Avg(f, S)
    IN  RSub(Avg(sq, S), RMul(m, m))

\* MIN / MAX of a non-empty set of integers
SetMin(S) == CHOOSE x \in S : \A y \in S : x <= y
SetMax(S) == CHOOSE x \in S : \A y \in S : x >= y

---------------------------------------------------------------------------
\* The tables.  P: the ids of the persons rows.  E: the entries rows, a
\* function from entry id to [group_number, position, picked_by_person_id,
\* movie_id].  R: the ratings rows [person_id, entry_id, score], at most one
\* per (person_id, entry_id).

EntryIds(E) == DOMAIN E

\* the score column of the rows S, as the argument of an aggregate
score(S) == [r \in S |-> Int2Rat(r.score)]

\* SELECT COALESCE(MAX(group_number), 1) FROM entries
GetCurrentGroup(E) ==
    IF EntryIds(E) = {} THEN 1
    ELSE SetMax({E[e].group_number : e \in EntryIds(E)})

\* The query with MIN(position) in place of MAX(position).
AdvantageRows_MinPosition(P, E, g) ==
    LET inGroup == {e \in EntryIds(E) : E[e].group_number = g}
    IN  IF inGroup = {} THEN {}
        ELSE LET min_pos == SetMin({E[e].position : e \in inGroup})
             IN  {E[e].picked_by_person_id :
                    e \in {x \in inGroup : /\ E[x].position = min_pos
                                           /\ E[x].picked_by_person_id \in P}}

\* The rows of GetAdvantageHolder's query before LIMIT 1: the pickers (joined
\* to persons) of the entries of group g at the group's maximum position.
AdvantageRows(P, E, g) ==
    LET inGroup == {e \in EntryIds(E) : E[e].group_number = g}
    IN  IF inGroup = {} THEN {}
        ELSE LET max_pos == SetMax({E[e].position : e \in inGroup})
             IN  {E[e].picked_by_person_id :
                    e \in {x \in inGroup : /\ E[x].position = max_pos
                                           /\ E[x].picked_by_person_id \in P}}

\* GetAdvantageHolder: <<person or NULL, advantage group>>, one result per row
\* LIMIT 1 may keep.
GetAdvantageHolder(P, E, currentGroup) ==
    IF currentGroup <= 1 THEN {<<NULL, 0>>}
    ELSE LET prevGroup == currentGroup - 1
             rows == AdvantageRows(P, E, prevGroup)
         IN  IF rows = {} THEN {<<NULL, prevGroup>>}
             ELSE {<<p, prevGroup>> : p \in rows}

\* group_bounds with MAX(position) in place of MIN(position)
GroupMinPos_Max(E, g) == SetMax({E[e].position : e \in {x \in EntryIds(E) : E[x].group_number = g}})

\* group_bounds: MIN(position) and MAX(position) per group_number
GroupMinPos(E, g) == SetMin({E[e].position : e \in {x \in EntryIds(E) : E[x].group_number = g}})
GroupMaxPos(E, g) == SetMax({E[e].position : e \in {x \in EntryIds(E) : E[x].group_number = g}})

\* first_picks with the minimum taken over the entries that have a picker
FirstPicks_AmongPicked(E, p) ==
    {e \in EntryIds(E) :
        /\ E[e].picked_by_person_id # NULL
        /\ E[e].picked_by_person_id = p
        /\ \A o \in EntryIds(E) :
              (E[o].group_number = E[e].group_number /\ E[o].picked_by_person_id # NULL)
                 => E[e].position <= E[o].position}

\* first_picks / last_picks: the entries a person picked that sit at the
\* minimum / maximum position of their group
FirstPicks(E, p) ==
    {e \in EntryIds(E) : /\ E[e].picked_by_person_id # NULL
                         /\ E[e].picked_by_person_id = p
                         /\ E[e].position = GroupMinPos(E, E[e].group_number)}
LastPicks(E, p) ==
    {e \in EntryIds(E) : /\ E[e].picked_by_person_id # NULL
                         /\ E[e].picked_by_person_id = p
                         /\ E[e].position = GroupMaxPos(E, E[e].group_number)}

\* GetPickPositionStats: one row per person
GetPickPositionStats(P, E) ==
    {[PersonID |-> p,
      FirstPickCount |-> Cardinality(FirstPicks(E, p)),
      LastPickCount |-> Cardinality(LastPicks(E, p))] : p \in P}

\* the ratings rows of one entry
RatingsOf(R, e) == {r \in R : r.entry_id = e}

\* fully_rated_entries: SELECT entry_id FROM ratings GROUP BY entry_id
\* HAVING COUNT(*) = 4
FullyRatedEntries(R) ==
    {e \in {r.entry_id : r \in R} : Cardinality(RatingsOf(R, e)) = FullyRatedCount}

\* rating_given without the join to fully_rated_entries
RatingGiven_AllRated(R, p) == {r \in R : r.person_id = p}

\* rating_given: the ratings of a person on fully rated entries
RatingGiven(R, p) == {r \in R : r.person_id = p /\ r.entry_id \in FullyRatedEntries(R)}

\* rating_received: the ratings on the fully rated entries a person picked
RatingReceived(E, R, p) ==
    {r \in R : /\ r.entry_id \in EntryIds(E)
               /\ r.entry_id \in FullyRatedEntries(R)
               /\ E[r.entry_id].picked_by_person_id # NULL
               /\ E[r.entry_id].picked_by_person_id = p}

\* GetRatingStats: one row per person, COALESCE(..., 0) where the person has
\* no row in rating_given / rating_received
GetRatingStats(P, E, R) ==
    {[PersonID |-> p,
      AvgRatingGiven |->
          IF RatingGiven(R, p) = {} THEN RZero ELSE Avg(score(R), RatingGiven(R, p)),
      AvgRatingReceived |->
          IF RatingReceived(E, R, p) = {} THEN RZero
          ELSE Avg(score(R), RatingReceived(E, R, p)),
      RatingStdDev |->
          IF RatingGiven(R, p) = {} THEN RZero ELSE VarPop(score(R), RatingGiven(R, p)),
      TotalRatingsGiven |-> Cardinality(RatingGiven(R, p))] : p \in P}

\* entry_averages: AVG(score) per fully rated entry
EntryAverage(R, e) == Avg(score(R), RatingsOf(R, e))

\* deviations with entry_averages over every rated entry
DeviationRows_AllRated(R, p) == {r \in R : r.person_id = p}

\* deviations: the rows of ratings joined to entry_averages, per person
DeviationRows(R, p) == {r \in R : r.person_id = p /\ r.entry_id \in FullyRatedEntries(R)}

\* ABS(r.score - ea.avg_score)
deviation(R) ==
    [r \in R |-> RAbs(RSub(Int2Rat(r.score), EntryAverage(R, r.entry_id)))]

\* GetDeviationStats: one row per person
GetDeviationStats(P, R) ==
    {[PersonID |-> p,
      AvgDeviation |->
          IF DeviationRows(R, p) = {} THEN RZero
          ELSE Avg(deviation(R), DeviationRows(R, p))] : p \in P}

\* entry_min_ratings with MAX(score) in place of MIN(score)
EntryMinScore_Max(R, e) == SetMax({r.score : r \in RatingsOf(R, e)})

\* entry_min_ratings: MIN(score) per fully rated entry
EntryMinScore(R, e) == SetMin({r.score : r \in RatingsOf(R, e)})

\* self_lowest: the (entry, rating) rows where the picker's own rating equals
\* the entry's minimum score, over fully rated entries
SelfLowest(E, R, p) ==
    {r \in R : /\ r.entry_id \in EntryIds(E)
               /\ E[r.entry_id].picked_by_person_id # NULL
               /\ E[r.entry_id].picked_by_person_id = p
               /\ r.person_id = p
               /\ r.entry_id \in FullyRatedEntries(R)
               /\ r.score = EntryMinScore(R, r.entry_id)}

\* GetSelfRatingStats: one row per person
GetSelfRatingStats(P, E, R) ==
    {[PersonID |-> p, SelfLowestCount |-> Cardinality(SelfLowest(E, R, p))] : p \in P}

\* the entries a person picked (picked_by_person_id IS NOT NULL, grouped)
PicksOf(E, p) ==
    {e \in EntryIds(E) : E[e].picked_by_person_id # NULL /\ E[e].picked_by_person_id = p}

\* a nullable integer column of the movie of each entry of S, NULLs dropped
\* as SUM and AVG drop them
NotNull(E, S, col) ==
    {e \in S : ((col = "runtime_minutes") /\ Movies[E[e].movie_id].runtime_minutes # NULL)
               \/ ((col = "release_year") /\ Movies[E[e].movie_id].release_year # NULL)}

runtime_minutes(E) == [e \in EntryIds(E) |-> Int2Rat(Movies[E[e].movie_id].runtime_minutes)]
release_year(E) == [e \in EntryIds(E) |-> Int2Rat(Movies[E[e].movie_id].release_year)]

\* GetPickMetadataStats: one row per picker (entries JOIN movies GROUP BY
\* picked_by_person_id), COALESCE(SUM, 0) and COALESCE(AVG, 0)
GetPickMetadataStats(E) ==
    {[PersonID |-> p,
      TotalRuntime |->
          RSum(runtime_minutes(E), NotNull(E, PicksOf(E, p), "runtime_minutes"))[1],
      AvgReleaseYear |->
          IF NotNull(E, PicksOf(E, p), "release_year") = {} THEN RZero
          ELSE Avg(release_year(E), NotNull(E, PicksOf(E, p), "release_year")),
      PickCount |-> Cardinality(PicksOf(E, p))] :
        p \in {E[e].picked_by_person_id : e \in EntryIds(E)} \ {NULL}}

\* entry_stats joined to entries: one row per fully rated entry
EntryStats(E, R) ==
    {[Entry |-> e,
      AvgRating |-> Avg(score(R), RatingsOf(R, e)),
      RatingStdDev |-> VarPop(score(R), RatingsOf(R, e))] :
        e \in FullyRatedEntries(R) \cap EntryIds(E)}

\* a sequence lists the rows of the set S, each once
ListsRows(seq, S) ==
    /\ Len(seq) = Cardinality(S)
    /\ {seq[i] : i \in DOMAIN seq} = S

\* the sequences of length n over S
SeqsOfLen(S, n) == [1..n -> S]

\* GetMovieRatingVariance: the rows ORDER BY es.stddev_rating DESC; every order
\* of the rows that tie is a result
GetMovieRatingVariance(E, R) ==
    {seq \in SeqsOfLen(EntryStats(E, R), Cardinality(EntryStats(E, R))) :
        /\ ListsRows(seq, EntryStats(E, R))
        /\ \A i \in 1..(Len(seq) - 1) :
              ~RLess(seq[i].RatingStdDev, seq[i + 1].RatingStdDev)}

\* GetPickCounts: picker -> COUNT(*), a key per picker only
GetPickCounts(E) ==
    [p \in {E[e].picked_by_person_id : e \in EntryIds(E)} \ {NULL} |->
        Cardinality(PicksOf(E, p))]

\* GetSummaryStats: total_watched, total_runtime, total_groups, fully rated count
GetSummaryStats(E, R) ==
    [totalWatched |-> Cardinality(EntryIds(E)),
     totalRuntime |->
         RSum(runtime_minutes(E), NotNull(E, EntryIds(E), "runtime_minutes"))[1],
     totalGroups |->
         IF EntryIds(E) = {} THEN 0 ELSE SetMax({E[e].group_number : e \in EntryIds(E)}),
     fullyRated |-> Cardinality(FullyRatedEntries(R))]

\* GetAllPersons: the map id -> person, here its key set
GetAllPersons(P) == P

---------------------------------------------------------------------------
\* StatsHandler

\* the row of a person in a query result, if it has one
HasRow(rows, p) == \E row \in rows : row.PersonID = p
RowOf(rows, p) == CHOOSE row \in rows : row.PersonID = p

\* buildPersonStatsMap: a PersonStats per person, zero where no row names the
\* person; rows that name no known person are dropped
buildPersonStatsMap(P, pickPositionStats, ratingStats, deviationStats, selfRatingStats, pickMetadataStats, pickCounts) ==
    [id \in P |->
        [Person |-> id,
         TotalPicks |-> IF id \in DOMAIN pickCounts THEN pickCounts[id] ELSE 0,
         FirstPickCount |->
             IF HasRow(pickPositionStats, id)
             THEN RowOf(pickPositionStats, id).FirstPickCount ELSE 0,
         LastPickCount |->
             IF HasRow(pickPositionStats, id)
             THEN RowOf(pickPositionStats, id).LastPickCount ELSE 0,
         AvgRatingGiven |->
             IF HasRow(ratingStats, id) THEN RowOf(ratingStats, id).AvgRatingGiven
             ELSE RZero,
         AvgRatingReceived |->
             IF HasRow(ratingStats, id) THEN RowOf(ratingStats, id).AvgRatingReceived
             ELSE RZero,
         RatingStdDev |->
             IF HasRow(ratingStats, id) THEN RowOf(ratingStats, id).RatingStdDev
             ELSE RZero,
         MoviesRated |->
             IF HasRow(ratingStats, id) THEN RowOf(ratingStats, id).TotalRatingsGiven
             ELSE 0,
         AvgDeviationFromGroup |->
             IF HasRow(deviationStats, id) THEN RowOf(deviationStats, id).AvgDeviation
             ELSE RZero,
         SelfLowestCount |->
             IF HasRow(selfRatingStats, id)
             THEN RowOf(selfRatingStats, id).SelfLowestCount ELSE 0,
         TotalRuntimePicked |->
             IF HasRow(pickMetadataStats, id)
             THEN RowOf(pickMetadataStats, id).TotalRuntime ELSE 0,
         AvgReleaseYear |->
             IF HasRow(pickMetadataStats, id)
             THEN RowOf(pickMetadataStats, id).AvgReleaseYear ELSE RZero]]

\* a `range` that may visit a key twice and skip another
Orders_AnyKeys(keys) == [1..Cardinality(keys) -> keys]

\* the orders in which `range` may visit the keys of a map
Orders(keys) ==
    {o \in [1..Cardinality(keys) -> keys] : \A i, j \in DOMAIN o : o[i] = o[j] => i = j}

\* math.Inf(1): greater than every rational under RLess
Inf == <<1, 0>>

\* the loop of findMax over the values vals[i] of the persons order[i]
RECURSIVE ScanMax(_, _, _, _, _)
ScanMax(order, vals, i, winner, maxVal) ==
    IF i > Len(order) THEN <<winner, maxVal>>
    ELSE IF RGreater(vals[i], maxVal)
         THEN ScanMax(order, vals, i + 1, order[i], vals[i])
         ELSE ScanMax(order, vals, i + 1, winner, maxVal)

\* the loop of findMin
RECURSIVE ScanMin(_, _, _, _, _)
ScanMin(order, vals, i, winner, minVal) ==
    IF i > Len(order) THEN <<winner, minVal>>
    ELSE IF RLess(vals[i], minVal)
         THEN ScanMin(order, vals, i + 1, order[i], vals[i])
         ELSE ScanMin(order, vals, i + 1, winner, minVal)

\* the metric closures of calculateAwards
HeadlinerMetric(ps) == Int2Rat(ps.FirstPickCount)
BiggestLoserMetric(ps) == Int2Rat(ps.LastPickCount)
CorporateDarlingMetric(ps) == IF ps.TotalPicks = 0 THEN RZero ELSE ps.AvgRatingReceived
\* the closure without the guard on MoviesRated
HarshCriticMetric_NoSentinel(ps) == ps.AvgRatingGiven
HarshCriticMetric(ps) == IF ps.MoviesRated = 0 THEN Int2Rat(999) ELSE ps.AvgRatingGiven
EasyPleaserMetric(ps) == IF ps.MoviesRated = 0 THEN RZero ELSE ps.AvgRatingGiven
CriticalOutlierMetric(ps) == ps.AvgDeviationFromGroup
MovieMasochistMetric(ps) == Int2Rat(ps.SelfLowestCount)
\* RatingStdDev is carried squared, and so is the 999 it is compared with
SteadyHandMetric(ps) == IF ps.MoviesRated = 0 THEN Int2Rat(999 * 999) ELSE ps.RatingStdDev
WildcardMetric(ps) == IF ps.MoviesRated = 0 THEN RZero ELSE ps.RatingStdDev
ThrowbackRoyaltyMetric(ps) ==
    IF ps.TotalPicks = 0 \/ ps.AvgReleaseYear = RZero THEN Int2Rat(9999)
    ELSE ps.AvgReleaseYear
FreshPickerMetric(ps) == IF ps.TotalPicks = 0 THEN RZero ELSE ps.AvgReleaseYear
MarathonRunnerMetric(ps) == Int2Rat(ps.TotalRuntimePicked)

\* the closure of each award
Metric(metric, ps) ==
    CASE metric = "headliner" -> HeadlinerMetric(ps)
      [] metric = "biggest_loser" -> BiggestLoserMetric(ps)
      [] metric = "corporate_darling" -> CorporateDarlingMetric(ps)
      [] metric = "harsh_critic" -> HarshCriticMetric(ps)
      [] metric = "easy_pleaser" -> EasyPleaserMetric(ps)
      [] metric = "critical_outlier" -> CriticalOutlierMetric(ps)
      [] metric = "movie_masochist" -> MovieMasochistMetric(ps)
      [] metric = "steady_hand" -> SteadyHandMetric(ps)
      [] metric = "wildcard" -> WildcardMetric(ps)
      [] metric = "throwback_royalty" -> ThrowbackRoyaltyMetric(ps)
      [] metric = "fresh_picker" -> FreshPickerMetric(ps)
      [] metric = "marathon_runner" -> MarathonRunnerMetric(ps)

\* findMax / findMin: <<winner or NULL, value>>, the map visited in `order`;
\* `metric` names the closure the award passes
findMax(statsMap, metric, order) ==
    ScanMax(order, [i \in DOMAIN order |-> Metric(metric, statsMap[order[i]])],
            1, NULL, Int2Rat(-1))
findMin(statsMap, metric, order) ==
    ScanMin(order, [i \in DOMAIN order |-> Metric(metric, statsMap[order[i]])],
            1, NULL, Inf)

\* the `if` without `winner != nil` and without `value > 0`
MaxAward_Always(id, found) ==
    <<[ID |-> id, Winner |-> found[1], Value |-> found[2]]>>

\* the `if` without `value > 0`
MaxAward_AnyValue(id, found) ==
    IF found[1] # NULL
    THEN <<[ID |-> id, Winner |-> found[1], Value |-> found[2]]>>
    ELSE <<>>

\* one `if winner, value := ...; winner != nil && value ... { awards = append(...) }`
MaxAward(id, found) ==
    IF found[1] # NULL /\ RGreater(found[2], RZero)
    THEN <<[ID |-> id, Winner |-> found[1], Value |-> found[2]]>>
    ELSE <<>>
MinAward(id, found, sentinel) ==
    IF found[1] # NULL /\ RLess(found[2], sentinel)
    THEN <<[ID |-> id, Winner |-> found[1], Value |-> found[2]]>>
    ELSE <<>>

\* calculateAwards: the awards in the order the code appends them.  Value is
\* the number the code formats into the award's text.
calculateAwards(statsMap, order) ==
    MaxAward("headliner", findMax(statsMap, "headliner", order))
    \o MaxAward("biggest_loser", findMax(statsMap, "biggest_loser", order))
    \o MaxAward("corporate_darling", findMax(statsMap, "corporate_darling", order))
    \o MinAward("harsh_critic", findMin(statsMap, "harsh_critic", order), Int2Rat(999))
    \o MaxAward("easy_pleaser", findMax(statsMap, "easy_pleaser", order))
    \o MaxAward("critical_outlier", findMax(statsMap, "critical_outlier", order))
    \o MaxAward("movie_masochist", findMax(statsMap, "movie_masochist", order))
    \o MinAward("steady_hand", findMin(statsMap, "steady_hand", order),
                Int2Rat(999 * 999))
    \o MaxAward("wildcard", findMax(statsMap, "wildcard", order))
    \o MinAward("throwback_royalty", findMin(statsMap, "throwback_royalty", order),
                Int2Rat(9999))
    \o MaxAward("fresh_picker", findMax(statsMap, "fresh_picker", order))
    \o MaxAward("marathon_runner", findMax(statsMap, "marathon_runner", order))

\* calculateMovieAwards over the rows of GetMovieRatingVariance
calculateMovieAwards(movieVariance) ==
    IF Len(movieVariance) = 0 THEN <<>>
    ELSE LET hypeTrain == movieVariance[1]
             unifier == movieVariance[Len(movieVariance)]
         IN  (IF RGreater(hypeTrain.RatingStdDev, RZero)
              THEN <<[ID |-> "hype_train", Entry |-> hypeTrain.Entry,
                      Value |-> hypeTrain.RatingStdDev]>>
              ELSE <<>>)
             \o (IF Len(movieVariance) > 1
                 THEN <<[ID |-> "unifier", Entry |-> unifier.Entry,
                         Value |-> unifier.RatingStdDev]>>
                 ELSE <<>>)

\* the LeaderboardEntry rows appended while ranging over the map in `order`:
\* the persons that pass `keep`, each with its `value`
RECURSIVE AppendEntries(_, _, _, _)
AppendEntries(order, keep, value, i) ==
    IF i > Len(order) THEN <<>>
    ELSE (IF keep[order[i]] THEN <<[Person |-> order[i], Value |-> value[order[i]]]>>
          ELSE <<>>)
         \o AppendEntries(order, keep, value, i + 1)

\* `if v > max { max = v }` over the appended rows, from the zero value
RECURSIVE MaxValueOf(_, _, _)
MaxValueOf(rows, i, max) ==
    IF i > Len(rows) THEN max
    ELSE MaxValueOf(rows, i + 1, IF RGreater(rows[i].Value, max) THEN rows[i].Value ELSE max)

\* one step of the insertion sort sort.Slice runs on a short slice: x moves
\* left past the rows whose Value is smaller
RECURSIVE InsertRow(_, _)
InsertRow(sorted, x) ==
    IF sorted = <<>> THEN <<x>>
    ELSE IF RGreater(x.Value, sorted[Len(sorted)].Value)
         THEN InsertRow(SubSeq(sorted, 1, Len(sorted) - 1), x) \o <<sorted[Len(sorted)]>>
         ELSE sorted \o <<x>>

\* sort.Slice(rows, func(i, j) bool { return rows[i].Value > rows[j].Value })
RECURSIVE SortSlice(_, _)
SortSlice(rows, n) ==
    IF n = 0 THEN <<>> ELSE InsertRow(SortSlice(rows, n - 1), rows[n])

\* the block appended without `if len(entries) > 0`
Leaderboard_AlsoEmpty(title, rows) ==
    <<[Title |-> title, Entries |-> SortSlice(rows, Len(rows)),
       MaxValue |-> MaxValueOf(rows, 1, RZero)]>>

\* the block without sort.Slice
Leaderboard_Unsorted(title, rows) ==
    IF Len(rows) > 0
    THEN <<[Title |-> title, Entries |-> rows, MaxValue |-> MaxValueOf(rows, 1, RZero)]>>
    ELSE <<>>

\* one leaderboard block: appended only when it has rows
Leaderboard(title, rows) ==
    IF Len(rows) > 0
    THEN <<[Title |-> title, Entries |-> SortSlice(rows, Len(rows)),
            MaxValue |-> MaxValueOf(rows, 1, RZero)]>>
    ELSE <<>>

\* buildLeaderboards
buildLeaderboards(statsMap, order) ==
    Leaderboard("Generosity Index",
        AppendEntries(order,
            [p \in DOMAIN statsMap |-> statsMap[p].MoviesRated > 0],
            [p \in DOMAIN statsMap |-> statsMap[p].AvgRatingGiven], 1))
    \o Leaderboard("Pick Success Rate",
        AppendEntries(order,
            [p \in DOMAIN statsMap |->
                statsMap[p].TotalPicks > 0 /\ RGreater(statsMap[p].AvgRatingReceived, RZero)],
            [p \in DOMAIN statsMap |-> statsMap[p].AvgRatingReceived], 1))
    \o Leaderboard("Total Picks",
        AppendEntries(order,
            [p \in DOMAIN statsMap |-> statsMap[p].TotalPicks > 0],
            [p \in DOMAIN statsMap |-> Int2Rat(statsMap[p].TotalPicks)], 1))

\* personStatsMap as buildStatsData builds it from the query results
PersonStatsMap(P, E, R) ==
    buildPersonStatsMap(GetAllPersons(P), GetPickPositionStats(P, E),
                        GetRatingStats(P, E, R), GetDeviationStats(P, R),
                        GetSelfRatingStats(P, E, R), GetPickMetadataStats(E),
                        GetPickCounts(E))

\* buildStatsData: the report of one request.  `advantage` is the result of
\* GetAdvantageHolder, `movieVariance` that of GetMovieRatingVariance, `order`
\* the order in which the request ranges over personStatsMap.
buildStatsData(P, E, R, advantage, movieVariance, order) ==
    LET personStatsMap == PersonStatsMap(P, E, R)
        summary == GetSummaryStats(E, R)
    IN  [AdvantageHolder |-> advantage[1],
         AdvantageGroup |-> advantage[2],
         Awards |-> calculateAwards(personStatsMap, order),
         MovieAwards |-> calculateMovieAwards(movieVariance),
         Leaderboards |-> buildLeaderboards(personStatsMap, order),
         PersonStats |-> [i \in DOMAIN order |-> personStatsMap[order[i]]],
         TotalMoviesWatched |-> summary.totalWatched,
         TotalWatchTimeMinutes |-> summary.totalRuntime,
         TotalGroups |-> summary.totalGroups,
         FullyRatedMovies |-> summary.fullyRated]

\* every report a request may build from the tables
Reports(P, E, R) ==
    {buildStatsData(P, E, R, advantage, movieVariance, order) :
        advantage \in GetAdvantageHolder(P, E, GetCurrentGroup(E)),
        movieVariance \in GetMovieRatingVariance(E, R),
        order \in Orders(GetAllPersons(P))}

---------------------------------------------------------------------------
\* The snapshots the requests are checked on

\* Positions are unique within a round (the input invariant the report relies
\* on), so an entry of the pick structure is known by its round and position.
Cells == (1..MaxGroup) \X (1..MaxPosition)
CellId(c) == (c[1] - 1) * MaxPosition + c[2]

\* Pick structure: n persons, up to MaxPickEntries entries at distinct
\* positions of the rounds, each with any picker or none; no ratings.
PickSnapshotsOf(n) ==
    UNION {{[persons |-> 1..n,
             entries |-> [e \in {CellId(c) : c \in C} |->
                 LET c == CHOOSE x \in C : CellId(x) = e
                 IN  [group_number |-> c[1], position |-> c[2],
                      picked_by_person_id |-> pick[c], movie_id |-> 1]],
             ratings |-> {}] : pick \in [C -> {NULL} \cup (1..n)]} :
        C \in {X \in SUBSET Cells : Cardinality(X) <= MaxPickEntries}}

PickSnapshots == UNION {PickSnapshotsOf(n) : n \in PickPersonCounts}

\* Movies: 2 persons, k entries in one round at positions 1..k, each with any
\* picker or none and any movie; no ratings.
MovieSnapshotsOf(k) ==
    {[persons |-> 1..2,
      entries |-> [e \in 1..k |-> [group_number |-> 1, position |-> e,
                                   picked_by_person_id |-> pick[e], movie_id |-> mv[e]]],
      ratings |-> {}] :
        pick \in [1..k -> {NULL, 1, 2}], mv \in [1..k -> DOMAIN Movies]}

MovieSnapshots == UNION {MovieSnapshotsOf(k) : k \in RatedEntryCounts}

\* the ratings of entry e by the persons 1..m: person 1 scores a, the others b
RatingRows(e, m, a, b) ==
    {[person_id |-> p, entry_id |-> e, score |-> IF p = 1 THEN a ELSE b] : p \in 1..m}

\* how many persons rate an entry of a snapshot with n persons: nobody, one
\* fewer than the threshold, the threshold, everybody
RaterCounts(n) == {0, FullyRatedCount - 1, FullyRatedCount, n} \cap (0..n)

RatingPatterns(n) == [m : RaterCounts(n), a : Scores, b : Scores]

\* Ratings: n persons, k entries in one round at positions 1..k, each picked by
\* person 1 or 2 and rated after a pattern.
RatingSnapshotsOf(n, k) ==
    {[persons |-> 1..n,
      entries |-> [e \in 1..k |-> [group_number |-> 1, position |-> e,
                                   picked_by_person_id |-> pick[e], movie_id |-> e]],
      ratings |-> UNION {RatingRows(e, pat[e].m, pat[e].a, pat[e].b) : e \in 1..k}] :
        pick \in [1..k -> {1, 2}], pat \in [1..k -> RatingPatterns(n)]}

\* persons tables at the threshold and one below it with every number of
\* entries; one above it with one entry
RatingSnapshots ==
    UNION {RatingSnapshotsOf(FullyRatedCount, k) : k \in RatedEntryCounts}
    \cup UNION {RatingSnapshotsOf(FullyRatedCount - 1, k) : k \in RatedEntryCounts}
    \cup RatingSnapshotsOf(FullyRatedCount + 1, 1)

\* Above the threshold: one person more than the threshold and the entries
\* ManyRatedEntryIds in one round, all picked by person 1, each rated by all
\* persons or by all but one, person 1 scoring any score and the others 2.
ManyRatedEntryIds == {1, 2, 3}
ManyRatedSnapshots ==
    {[persons |-> 1..(FullyRatedCount + 1),
      entries |-> [e \in ManyRatedEntryIds |->
                      [group_number |-> 1, position |-> e,
                       picked_by_person_id |-> 1, movie_id |-> 1]],
      ratings |-> UNION {RatingRows(e, m[e], a[e], 2) : e \in ManyRatedEntryIds}] :
        m \in [ManyRatedEntryIds -> {FullyRatedCount, FullyRatedCount + 1}],
        a \in [ManyRatedEntryIds -> Scores]}

\* Two persons A = 1 and B = 2 and one round: the entry at position 1 picked
\* by A and rated A = 8, B = 6, the entry at position 2 picked by B and rated
\* A = 4, B = 4.
TwoPersonSnapshot ==
    [persons |-> {1, 2},
     entries |-> <<[group_number |-> 1, position |-> 1,
                    picked_by_person_id |-> 1, movie_id |-> 1],
                   [group_number |-> 1, position |-> 2,
                    picked_by_person_id |-> 2, movie_id |-> 1]>>,
     ratings |-> {[person_id |-> 1, entry_id |-> 1, score |-> 8],
                  [person_id |-> 2, entry_id |-> 1, score |-> 6],
                  [person_id |-> 1, entry_id |-> 2, score |-> 4],
                  [person_id |-> 2, entry_id |-> 2, score |-> 4]}]

\* Any integers as round number and position: group_number and position are
\* INTEGER columns without a CHECK, and the entry form accepts any integer as
\* group_number.  One person, one entry with any picker or none.
RoundOrPositionValues == {-1, 0, 1}
AnyIntegerSnapshots ==
    {[persons |-> {1},
      entries |-> <<[group_number |-> g, position |-> pos,
                     picked_by_person_id |-> pick, movie_id |-> 1]>>,
      ratings |-> {}] :
        g \in RoundOrPositionValues, pos \in RoundOrPositionValues, pick \in {NULL, 1}}

Snapshots ==
    PickSnapshots \cup MovieSnapshots \cup RatingSnapshots \cup ManyRatedSnapshots
    \cup {TwoPersonSnapshot} \cup AnyIntegerSnapshots

---------------------------------------------------------------------------
\* The state machine

\* no writing request is in progress
NoRequest ==
    /\ request = [id |-> "", body |-> "", form |-> <<>>]
    /\ pending = {}
    /\ existingRatings = {}
    /\ calls = <<>>
    /\ status = 0
    /\ pc = "idle"

\* no call of a repository's Update is in progress
NoUpdates == stored = <<>> /\ updates = <<>>

\* no page is open in a browser
NoPage ==
    /\ grid = <<>>
    /\ listeners = <<>>
    /\ page = [state |-> "none", swaps |-> 0]
    /\ draggedItem = NULL
    /\ gestures = 0
    /\ posts = <<>>

Init ==
    /\ \E s \in Snapshots :
          /\ persons = s.persons
          /\ entries = s.entries
          /\ ratings = s.ratings
    /\ statsData = <<>>
    /\ NoRequest
    /\ NoUpdates
    /\ NoPage

\* StatsPage: the GET of the statistics dashboard.  statsData lists the report
\* it rendered; a behaviour is one request on one snapshot.
StatsPage ==
    /\ statsData = <<>>
    /\ \E report \in Reports(persons, entries, ratings) : statsData' = <<report>>
    /\ UNCHANGED <<persons, entries, ratings>>
    /\ UNCHANGED <<httpVars, repoVars, domVars>>

\* the request has been served / its report
Built == statsData # <<>>
Report == statsData[1]

Next == StatsPage

Spec == Init /\ [][Next]_vars

---------------------------------------------------------------------------
\* What the specification says of a snapshot

\* the persons who rated entry e
RatersOf(R, e) == {r.person_id : r \in RatingsOf(R, e)}

\* the rated entries
RatedEntries(R) == {r.entry_id : r \in R}

\* Fully rated, as specified: the number of distinct persons who rated the
\* entry equals the number of known persons
SpecFullyRated(P, R) ==
    {e \in RatedEntries(R) : Cardinality(RatersOf(R, e)) = Cardinality(P)}

\* the PersonStats of person p in the report
StatsOf(p) == Report.PersonStats[CHOOSE i \in DOMAIN Report.PersonStats :
                                    Report.PersonStats[i].Person = p]

\* positions are unique within each round
UniquePositions(E) ==
    \A e1, e2 \in EntryIds(E) :
        (E[e1].group_number = E[e2].group_number /\ E[e1].position = E[e2].position)
            => e1 = e2

---------------------------------------------------------------------------
\* C1: a second build of the report from the same snapshot yields the same
\* report: every report the request can build from the tables is the report
\* it built (same award winners under ties, same order of PersonStats and of
\* every leaderboard).
C1_SameSnapshotSameReport ==
    Built => \A again \in Reports(persons, entries, ratings) : again = Report

\* C2: an entry is treated as fully rated exactly when the number of distinct
\* persons who rated it equals the number of known persons, whatever that
\* number is; the queries' fully_rated_entries and the summary's fully rated
\* count use that threshold.
C2_FullyRatedIsRatedByAll ==
    Built => /\ FullyRatedEntries(ratings) = SpecFullyRated(persons, ratings)
             /\ Report.FullyRatedMovies = Cardinality(SpecFullyRated(persons, ratings))

\* the mean score of entry e
MeanScore(R, e) ==
    RDivInt(RSum([r \in RatingsOf(R, e) |-> Int2Rat(r.score)], RatingsOf(R, e)),
            Cardinality(RatingsOf(R, e)))

\* the mean over the ratings person p gave on the entries S of the absolute
\* difference between the score and the entry's mean score; 0 without ratings
MeanAbsDeviation(R, p, S) ==
    LET given == {r \in R : r.person_id = p /\ r.entry_id \in S}
    IN  IF given = {} THEN RZero
        ELSE RDivInt(RSum([r \in given |->
                              RAbs(RSub(Int2Rat(r.score), MeanScore(R, r.entry_id)))],
                          given),
                     Cardinality(given))

\* the entries with exactly as many ratings as the queries require
EntriesWithFourRatings(R) ==
    {e \in RatedEntries(R) : Cardinality(RatingsOf(R, e)) = FullyRatedCount}

\* the snapshots on which the hard-coded threshold of C2 is the number of
\* persons: what fails on them does not fail because of C2
ThresholdIsPersons == Cardinality(persons) = FullyRatedCount

C4_NotFullyRatedContributesNothing ==
    Built =>
        LET full == SpecFullyRated(persons, ratings)
            without == GetRatingStats(persons, entries,
                                      {r \in ratings : r.entry_id \in full})
        IN  /\ \A p \in persons :
                  /\ StatsOf(p).AvgRatingGiven = RowOf(without, p).AvgRatingGiven
                  /\ StatsOf(p).RatingStdDev = RowOf(without, p).RatingStdDev
                  /\ StatsOf(p).AvgRatingReceived = RowOf(without, p).AvgRatingReceived
            /\ \A i \in DOMAIN Report.MovieAwards : Report.MovieAwards[i].Entry \in full

\* the sum of an integer column of the report's PersonStats
RECURSIVE SumFirstPickCount(_)
SumFirstPickCount(i) ==
    IF i = 0 THEN 0 ELSE Report.PersonStats[i].FirstPickCount + SumFirstPickCount(i - 1)
RECURSIVE SumLastPickCount(_)
SumLastPickCount(i) ==
    IF i = 0 THEN 0 ELSE Report.PersonStats[i].LastPickCount + SumLastPickCount(i - 1)

Rounds(E) == {E[e].group_number : e \in EntryIds(E)}
RoundEntries(E, g) == {e \in EntryIds(E) : E[e].group_number = g}
HasPicker(E, e) == E[e].picked_by_person_id # NULL

\* the rounds with at least one entry that has a picker
RoundsWithPicker(E) == {g \in Rounds(E) : \E e \in RoundEntries(E, g) : HasPicker(E, e)}

\* the rounds whose entry at the lowest / highest position has a picker
RoundsFirstPicked(E) ==
    {g \in Rounds(E) : \E e \in RoundEntries(E, g) :
        /\ HasPicker(E, e)
        /\ \A o \in RoundEntries(E, g) : E[e].position <= E[o].position}
RoundsLastPicked(E) ==
    {g \in Rounds(E) : \E e \in RoundEntries(E, g) :
        /\ HasPicker(E, e)
        /\ \A o \in RoundEntries(E, g) : E[e].position >= E[o].position}

\* C5 (as claimed): with positions unique within each round, the FirstPickCount
\* of all persons and the LastPickCount of all persons each sum to the number
\* of rounds that have at least one entry with a picker.
C5_PickCountsSumToRoundsWithPicker ==
    (Built /\ UniquePositions(entries)) =>
        /\ SumFirstPickCount(Len(Report.PersonStats)) = Cardinality(RoundsWithPicker(entries))
        /\ SumLastPickCount(Len(Report.PersonStats)) = Cardinality(RoundsWithPicker(entries))

\* C5 (amended): with positions unique within each round, the FirstPickCount
\* of all persons sum to the number of rounds whose entry at the minimum
\* position has a picker, the LastPickCount to the number of rounds whose entry
\* at the maximum position has a picker.
C5_PickCountsSumToPickedEnds ==
    (Built /\ UniquePositions(entries)) =>
        /\ SumFirstPickCount(Len(Report.PersonStats)) = Cardinality(RoundsFirstPicked(entries))
        /\ SumLastPickCount(Len(Report.PersonStats)) = Cardinality(RoundsLastPicked(entries))

\* C5 witness: a round whose first entry has no picker and whose last entry has
\* one, counted as a last pick only
C5_Witness ==
    /\ Built
    /\ UniquePositions(entries)
    /\ \E g \in RoundsWithPicker(entries) : g \notin RoundsFirstPicked(entries)
    /\ SumLastPickCount(Len(Report.PersonStats)) >= 1
    /\ SumFirstPickCount(Len(Report.PersonStats)) < SumLastPickCount(Len(Report.PersonStats))

LowestScore(R, e) == CHOOSE x \in {r.score : r \in RatingsOf(R, e)} :
                        \A r \in RatingsOf(R, e) : x <= r.score

\* the entries among S that person p picked and rated with the entry's lowest
\* score
SelfRatedLowest(E, R, p, S) ==
    {e \in S \cap EntryIds(E) :
        /\ E[e].picked_by_person_id = p
        /\ \E r \in RatingsOf(R, e) : r.person_id = p /\ r.score = LowestScore(R, e)}

CurrentRound(E) ==
    IF EntryIds(E) = {} THEN 1
    ELSE CHOOSE g \in Rounds(E) : \A h \in Rounds(E) : g >= h

\* the entries of round g at the round's maximum position
LastEntries(E, g) ==
    {e \in RoundEntries(E, g) : \A o \in RoundEntries(E, g) : E[e].position >= E[o].position}

\* C8: with current round R (the highest round number, or 1 without entries),
\* there is no advantage holder if R <= 1; if R > 1 the holder is the picker of
\* the entry at the maximum position of round R - 1, and there is none when
\* that entry has no picker or round R - 1 has no entries.
C8_AdvantageHolder ==
    Built =>
        LET R == CurrentRound(entries)
            last == LastEntries(entries, R - 1)
        IN  /\ R <= 1 => Report.AdvantageHolder = NULL /\ Report.AdvantageGroup = 0
            /\ R > 1 =>
                  /\ Report.AdvantageGroup = R - 1
                  /\ Report.AdvantageHolder # NULL =>
                        \E e \in last : entries[e].picked_by_person_id = Report.AdvantageHolder
                  /\ Report.AdvantageHolder = NULL =>
                        \A e \in last : ~HasPicker(entries, e)

\* C8 witness: round 2 is current and the last entry of round 1 has a picker,
\* who holds the advantage
C8_Witness ==
    /\ Built
    /\ CurrentRound(entries) = 2
    /\ Cardinality(RoundEntries(entries, 1)) = 2
    /\ UniquePositions(entries)
    /\ Report.AdvantageHolder # NULL
    /\ \E e \in RoundEntries(entries, 1) :
          entries[e].picked_by_person_id \notin {NULL, Report.AdvantageHolder}

---------------------------------------------------------------------------
\* C9: the person awards

PersonAwardIds ==
    {"headliner", "biggest_loser", "corporate_darling", "harsh_critic",
     "easy_pleaser", "critical_outlier", "movie_masochist", "steady_hand",
     "wildcard", "throwback_royalty", "fresh_picker", "marathon_runner"}

\* the categories won by the lowest value; the others are won by the highest
MinAwardIds == {"harsh_critic", "steady_hand", "throwback_royalty"}

\* the metric a category ranks a person by
AwardMetric(id, ps) ==
    CASE id = "headliner" -> Int2Rat(ps.FirstPickCount)
      [] id = "biggest_loser" -> Int2Rat(ps.LastPickCount)
      [] id = "corporate_darling" -> ps.AvgRatingReceived
      [] id \in {"harsh_critic", "easy_pleaser"} -> ps.AvgRatingGiven
      [] id = "critical_outlier" -> ps.AvgDeviationFromGroup
      [] id = "movie_masochist" -> Int2Rat(ps.SelfLowestCount)
      [] id \in {"steady_hand", "wildcard"} -> ps.RatingStdDev
      [] id \in {"throwback_royalty", "fresh_picker"} -> ps.AvgReleaseYear
      [] id = "marathon_runner" -> Int2Rat(ps.TotalRuntimePicked)

\* the metric is defined for the person: raters have rating metrics, pickers
\* with a known release year have one
MetricDefined(id, ps) ==
    CASE id \in {"harsh_critic", "easy_pleaser", "steady_hand", "wildcard"} ->
            ps.MoviesRated > 0
      [] id = "corporate_darling" -> ps.TotalPicks > 0
      [] id \in {"throwback_royalty", "fresh_picker"} ->
            ps.TotalPicks > 0 /\ ps.AvgReleaseYear # RZero
      [] OTHER -> TRUE

\* the person qualifies: the metric is defined and, where the highest value
\* wins, is not 0
Qualifies(id, ps) ==
    /\ MetricDefined(id, ps)
    /\ id \notin MinAwardIds => RGreater(AwardMetric(id, ps), RZero)

Qualifying(id) == {p \in persons : Qualifies(id, StatsOf(p))}

\* the awards of a category in the report
AwardsOf(id) == {Report.Awards[i] : i \in {j \in DOMAIN Report.Awards :
                                               Report.Awards[j].ID = id}}
AwardCount(id) == Cardinality({j \in DOMAIN Report.Awards : Report.Awards[j].ID = id})

\* C9: every category has an award exactly when a person qualifies, at most
\* one, with a winner, who qualifies and whose metric, the award's value, is
\* the highest (the lowest, in a category won by the lowest value) over the
\* qualifying persons
C9_PersonAwards ==
    Built =>
        \A id \in PersonAwardIds :
            /\ AwardCount(id) <= 1
            /\ AwardCount(id) = 1 <=> Qualifying(id) # {}
            /\ \A a \in AwardsOf(id) :
                  /\ a.Winner # NULL
                  /\ a.Winner \in Qualifying(id)
                  /\ a.Value = AwardMetric(id, StatsOf(a.Winner))
                  /\ \A q \in Qualifying(id) :
                        IF id \in MinAwardIds
                        THEN ~RLess(AwardMetric(id, StatsOf(q)), a.Value)
                        ELSE ~RGreater(AwardMetric(id, StatsOf(q)), a.Value)

\* persons who qualify for the category with different metrics
QualifyApart(id) ==
    \E p, q \in Qualifying(id) :
        AwardMetric(id, StatsOf(p)) # AwardMetric(id, StatsOf(q))

\* C9 witness: a report with an award won by the highest value and an award
\* won by the lowest, each among persons who qualify with different metrics,
\* and a category without award while there are persons
C9_Witness ==
    /\ Built
    /\ \E id \in PersonAwardIds \ MinAwardIds : AwardCount(id) = 1 /\ QualifyApart(id)
    /\ \E id \in MinAwardIds : AwardCount(id) = 1 /\ QualifyApart(id)
    /\ \E id \in PersonAwardIds : AwardCount(id) = 0 /\ persons # {}

---------------------------------------------------------------------------
\* C10: the Hype Train

\* the population variance of the scores of entry e: the mean squared
\* difference from the mean score
ScoreVariance(R, e) ==
    RDivInt(RSum([r \in RatingsOf(R, e) |->
                     RMul(RSub(Int2Rat(r.score), MeanScore(R, e)),
                          RSub(Int2Rat(r.score), MeanScore(R, e)))],
                 RatingsOf(R, e)),
            Cardinality(RatingsOf(R, e)))

\* the entries of S whose standard deviation is the highest in S
MostDivisive(R, S) ==
    {e \in S : \A x \in S : ~RGreater(ScoreVariance(R, x), ScoreVariance(R, e))}

HypeTrains == {Report.MovieAwards[i] : i \in {j \in DOMAIN Report.MovieAwards :
                                                  Report.MovieAwards[j].ID = "hype_train"}}

\* the Hype Train over the entries S: present exactly when the highest
\* standard deviation in S is above 0, and then on an entry of S that has it
HypeTrainOver(S) ==
    /\ HypeTrains # {} <=>
          \E e \in S : RGreater(ScoreVariance(ratings, e), RZero)
    /\ \A a \in HypeTrains :
          /\ a.Entry \in MostDivisive(ratings, S)
          /\ a.Value = ScoreVariance(ratings, a.Entry)

\* C10 (as claimed): the Hype Train is on an entry rated by every person whose
\* standard deviation is the highest among the entries rated by every person,
\* and is in the report exactly when that standard deviation is above 0
C10_HypeTrainOverRatedByAll ==
    Built => HypeTrainOver(SpecFullyRated(persons, ratings) \cap EntryIds(entries))

\* C10 where the threshold of C2 is the number of persons: there the claim holds
C10_HypeTrainAtThreshold ==
    Built /\ ThresholdIsPersons =>
        HypeTrainOver(SpecFullyRated(persons, ratings) \cap EntryIds(entries))

---------------------------------------------------------------------------
\* C11: the Unifier

\* the entries of S whose standard deviation is the lowest in S
LeastDivisive(R, S) ==
    {e \in S : \A x \in S : ~RLess(ScoreVariance(R, x), ScoreVariance(R, e))}

Unifiers == {Report.MovieAwards[i] : i \in {j \in DOMAIN Report.MovieAwards :
                                                Report.MovieAwards[j].ID = "unifier"}}

\* the Unifier over the entries S: present exactly when S has at least two
\* entries, and then on an entry of S with the lowest standard deviation
UnifierOver(S) ==
    /\ Unifiers # {} <=> Cardinality(S) >= 2
    /\ \A a \in Unifiers :
          /\ a.Entry \in LeastDivisive(ratings, S)
          /\ a.Value = ScoreVariance(ratings, a.Entry)

\* C11 (as claimed): the Unifier is on an entry rated by every person whose
\* standard deviation is the lowest among the entries rated by every person,
\* and is in the report exactly when at least two entries are rated by every
\* person
C11_UnifierOverRatedByAll ==
    Built => UnifierOver(SpecFullyRated(persons, ratings) \cap EntryIds(entries))

\* C11 where the threshold of C2 is the number of persons: there the claim holds
C11_UnifierAtThreshold ==
    Built /\ ThresholdIsPersons =>
        UnifierOver(SpecFullyRated(persons, ratings) \cap EntryIds(entries))

---------------------------------------------------------------------------
\* C12: the two movie awards are on different entries

\* C12 (as claimed): the Hype Train and the Unifier of a report are never on
\* the same entry, and with exactly one entry rated by every person the report
\* has no Unifier
C12_MovieAwardsApart ==
    Built =>
        /\ \A h \in HypeTrains, u \in Unifiers : h.Entry # u.Entry
        /\ Cardinality(SpecFullyRated(persons, ratings) \cap EntryIds(entries)) = 1
              => Unifiers = {}

\* C12 where the threshold of C2 is the number of persons: there the claim holds
C12_MovieAwardsApartAtThreshold ==
    Built /\ ThresholdIsPersons =>
        /\ \A h \in HypeTrains, u \in Unifiers : h.Entry # u.Entry
        /\ Cardinality(SpecFullyRated(persons, ratings) \cap EntryIds(entries)) = 1
              => Unifiers = {}

\* the part of C12 that holds of every report: never the same entry
C12_NeverTheSameEntry ==
    Built => \A h \in HypeTrains, u \in Unifiers : h.Entry # u.Entry

---------------------------------------------------------------------------
\* C13: the divisiveness sequence

\* the sequence lists exactly the entries S, each once, by standard deviation
\* descending and, among equal standard deviations, by entry id
OrderedByDivisiveness(seq, S) ==
    /\ Len(seq) = Cardinality(S)
    /\ {seq[i].Entry : i \in DOMAIN seq} = S
    /\ \A i \in DOMAIN seq : seq[i].RatingStdDev = ScoreVariance(ratings, seq[i].Entry)
    /\ \A i, j \in DOMAIN seq :
          i < j => \/ RGreater(seq[i].RatingStdDev, seq[j].RatingStdDev)
                   \/ /\ seq[i].RatingStdDev = seq[j].RatingStdDev
                      /\ seq[i].Entry < seq[j].Entry

\* C13 (as claimed): every result of the divisiveness query lists exactly the
\* entries rated by every person, each once, by standard deviation descending
\* with ties in the order of the entry ids, so that the movie awards taken
\* from its first and last rows are the awards of the report (stated on the
\* snapshots with 4 persons, where fully rated means 4 ratings).
C13_DivisivenessOrder ==
    (Built /\ ThresholdIsPersons) =>
        \A seq \in GetMovieRatingVariance(entries, ratings) :
            /\ OrderedByDivisiveness(seq, SpecFullyRated(persons, ratings)
                                          \cap EntryIds(entries))
            /\ Report.MovieAwards = calculateMovieAwards(seq)

---------------------------------------------------------------------------
\* C14: a snapshot without ratings

RatingAwardIds ==
    {"corporate_darling", "harsh_critic", "easy_pleaser", "critical_outlier",
     "movie_masochist", "steady_hand", "wildcard"}

LeaderboardTitles ==
    {Report.Leaderboards[i].Title : i \in DOMAIN Report.Leaderboards}

\* C14: without ratings the report has no rating-based person award, no movie
\* award, neither the Generosity Index nor the Pick Success Rate leaderboard,
\* and the rating metrics of every person are zero
C14_NoRatings ==
    (Built /\ ratings = {}) =>
        /\ \A i \in DOMAIN Report.Awards : Report.Awards[i].ID \notin RatingAwardIds
        /\ Report.MovieAwards = <<>>
        /\ LeaderboardTitles \cap {"Generosity Index", "Pick Success Rate"} = {}
        /\ \A p \in persons :
              /\ StatsOf(p).MoviesRated = 0
              /\ StatsOf(p).AvgRatingGiven = RZero
              /\ StatsOf(p).AvgRatingReceived = RZero
              /\ StatsOf(p).RatingStdDev = RZero
              /\ StatsOf(p).AvgDeviationFromGroup = RZero
              /\ StatsOf(p).SelfLowestCount = 0

\* C14 witness: a report without ratings that has persons, picks, a pick-based
\* award and the Total Picks leaderboard
C14_Witness ==
    /\ Built /\ ratings = {}
    /\ Cardinality(persons) = 2
    /\ \A p \in persons : StatsOf(p).TotalPicks > 0
    /\ Report.Awards # <<>>
    /\ "Total Picks" \in LeaderboardTitles

---------------------------------------------------------------------------
\* C15: the scenario with two persons

\* the movie awards of the report with the id, as <<entry, value>>
MovieAwardsWith(id) ==
    {<<Report.MovieAwards[i].Entry, Report.MovieAwards[i].Value>> :
        i \in {j \in DOMAIN Report.MovieAwards : Report.MovieAwards[j].ID = id}}

\* C15: on the snapshot with persons A = 1 and B = 2, the report has
\* FirstPickCount[A] = 1, LastPickCount[B] = 1, both entries fully rated,
\* AvgRatingGiven[A] = 6, RatingStdDev[A] = 2 (its square 4), the Hype Train on
\* the entry at position 1 with standard deviation 1 and the Unifier on the
\* entry at position 2 with standard deviation 0
C15_TwoPersonScenario ==
    (/\ Built
     /\ persons = TwoPersonSnapshot.persons
     /\ entries = TwoPersonSnapshot.entries
     /\ ratings = TwoPersonSnapshot.ratings) =>
        /\ StatsOf(1).FirstPickCount = 1
        /\ StatsOf(2).LastPickCount = 1
        /\ Report.FullyRatedMovies = 2
        /\ StatsOf(1).AvgRatingGiven = Int2Rat(6)
        /\ StatsOf(1).RatingStdDev = Int2Rat(2 * 2)
        /\ MovieAwardsWith("hype_train") = {<<1, Int2Rat(1 * 1)>>}
        /\ MovieAwardsWith("unifier") = {<<2, RZero>>}

---------------------------------------------------------------------------
\* C16: snapshots that are not well formed

\* every rating names a known person and a known entry, no two ratings are of
\* the same person on the same entry, and the round number and the position of
\* every entry are positive
WellFormed(P, E, R) ==
    /\ \A r \in R : r.person_id \in P /\ r.entry_id \in EntryIds(E)
    /\ \A r1, r2 \in R :
          (r1.person_id = r2.person_id /\ r1.entry_id = r2.entry_id) => r1 = r2
    /\ \A e \in EntryIds(E) : E[e].group_number >= 1 /\ E[e].position >= 1

\* C16: a report is built only from a well-formed snapshot (from any other the
\* build fails and yields no report)
C16_InvalidSnapshotYieldsNoReport ==
    Built => WellFormed(persons, entries, ratings)

---------------------------------------------------------------------------
\* C17: the empty snapshot

\* C17: from the snapshot without persons, entries and ratings a report is
\* built, with no award, no movie award, no leaderboard, no PersonStats and
\* no advantage holder
C17_EmptySnapshot ==
    (Built /\ persons = {} /\ EntryIds(entries) = {} /\ ratings = {}) =>
        /\ Report.Awards = <<>>
        /\ Report.MovieAwards = <<>>
        /\ Report.Leaderboards = <<>>
        /\ Report.PersonStats = <<>>
        /\ Report.AdvantageHolder = NULL

\* C17 witness: the report of the empty snapshot
C17_Witness ==
    /\ Built /\ persons = {} /\ EntryIds(entries) = {} /\ ratings = {}
    /\ Report.TotalMoviesWatched = 0

---------------------------------------------------------------------------
\* C18, C19: the leaderboards

\* the persons who qualify for the leaderboard
QualifiesForBoard(title, ps) ==
    CASE title = "Generosity Index" -> ps.MoviesRated > 0
      [] title = "Pick Success Rate" ->
            ps.TotalPicks > 0 /\ RGreater(ps.AvgRatingReceived, RZero)
      [] title = "Total Picks" -> ps.TotalPicks > 0

BoardQualifiers(title) == {p \in persons : QualifiesForBoard(title, StatsOf(p))}

BoardTitles == {"Generosity Index", "Pick Success Rate", "Total Picks"}

\* the leaderboards of the report with the title
BoardsWith(title) ==
    {i \in DOMAIN Report.Leaderboards : Report.Leaderboards[i].Title = title}

\* C18: every leaderboard of the report is one of the three, each at most
\* once, in the report exactly when a person qualifies for it, and lists
\* exactly the persons who qualify, each once
C18_LeaderboardMembers ==
    Built =>
        /\ \A i \in DOMAIN Report.Leaderboards :
              /\ Report.Leaderboards[i].Title \in BoardTitles
              /\ Report.Leaderboards[i].Entries # <<>>
        /\ \A title \in BoardTitles :
              /\ Cardinality(BoardsWith(title)) <= 1
              /\ BoardsWith(title) # {} <=> BoardQualifiers(title) # {}
              /\ \A i \in BoardsWith(title) :
                    LET rows == Report.Leaderboards[i].Entries
                    IN  /\ {rows[j].Person : j \in DOMAIN rows} = BoardQualifiers(title)
                        /\ Len(rows) = Cardinality(BoardQualifiers(title))

\* C18 witness: a leaderboard that leaves out a person, a leaderboard absent
\* while there are persons, and a leaderboard with two persons
C18_Witness ==
    /\ Built
    /\ \E title \in BoardTitles :
          BoardsWith(title) # {} /\ BoardQualifiers(title) # persons
    /\ \E title \in BoardTitles : BoardsWith(title) = {} /\ persons # {}
    /\ \E title \in BoardTitles : Cardinality(BoardQualifiers(title)) >= 2

\* C19: the rows of every leaderboard are in non-increasing order of value,
\* and MaxValue is the largest value of the rows, the value of the first row
C19_LeaderboardOrder ==
    Built =>
        \A i \in DOMAIN Report.Leaderboards :
            LET rows == Report.Leaderboards[i].Entries
            IN  /\ \A j \in 1..(Len(rows) - 1) : ~RLess(rows[j].Value, rows[j + 1].Value)
                /\ \A j \in DOMAIN rows : ~RGreater(rows[j].Value, Report.Leaderboards[i].MaxValue)
                /\ Report.Leaderboards[i].MaxValue = rows[1].Value

\* C19 witness: a leaderboard whose rows have different values, built from a
\* map visited in ascending order of value
C19_Witness ==
    /\ Built
    /\ \E i \in DOMAIN Report.Leaderboards :
          LET rows == Report.Leaderboards[i].Entries
          IN  /\ Len(rows) >= 2
              /\ RGreater(rows[1].Value, rows[Len(rows)].Value)
              /\ \E a, b \in DOMAIN Report.PersonStats :
                    /\ a < b
                    /\ Report.PersonStats[a].Person = rows[Len(rows)].Person
                    /\ Report.PersonStats[b].Person = rows[1].Person

\* a leaderboard with two rows whose values are all 0
C19_AllZeroBoard ==
    /\ Built
    /\ \E i \in DOMAIN Report.Leaderboards :
          /\ Len(Report.Leaderboards[i].Entries) >= 2
          /\ Report.Leaderboards[i].MaxValue = RZero

---------------------------------------------------------------------------
\* C20: the PersonStats list

\* buildStatsData reads the persons first and runs the other queries after,
\* with no transaction around them: a person inserted in between, who picks
\* and rates before the other queries run, is in their rows and not in the
\* persons the request knows.  Here `persons` is what GetAllPersons returned,
\* n persons; person n + 1 is the late one.  One round, k entries at
\* positions 1..k with any picker or none, and entry 1 rated by the late
\* person or not rated.
LatePersonSnapshotsOf(n, k) ==
    {[persons |-> 1..n,
      entries |-> [e \in 1..k |-> [group_number |-> 1, position |-> e,
                                   picked_by_person_id |-> pick[e], movie_id |-> 1]],
      ratings |-> rated] :
        pick \in [1..k -> {NULL} \cup (1..(n + 1))],
        rated \in {{}} \cup {{[person_id |-> n + 1, entry_id |-> 1, score |-> x]} :
                                x \in Scores}}

LatePersonSnapshots ==
    UNION {LatePersonSnapshotsOf(n, k) : n \in {1, 2}, k \in RatedEntryCounts}

InitLatePerson ==
    /\ \E s \in Snapshots \cup LatePersonSnapshots :
          /\ persons = s.persons
          /\ entries = s.entries
          /\ ratings = s.ratings
    /\ statsData = <<>>
    /\ NoRequest
    /\ NoUpdates
    /\ NoPage

SpecLatePerson == InitLatePerson /\ [][Next]_vars

\* a person without picks and without ratings
Idle(p) ==
    /\ \A e \in EntryIds(entries) : entries[e].picked_by_person_id # p
    /\ \A r \in ratings : r.person_id # p

ZeroStats(ps) ==
    /\ ps.TotalPicks = 0 /\ ps.MoviesRated = 0
    /\ ps.FirstPickCount = 0 /\ ps.LastPickCount = 0
    /\ ps.AvgRatingGiven = RZero /\ ps.AvgRatingReceived = RZero
    /\ ps.RatingStdDev = RZero /\ ps.AvgDeviationFromGroup = RZero
    /\ ps.SelfLowestCount = 0 /\ ps.TotalRuntimePicked = 0
    /\ ps.AvgReleaseYear = RZero

\* C20: the PersonStats list has one element per known person and no other,
\* a person without picks and ratings has all-zero metrics, and the picks of
\* a known person are counted whatever rows name other ids
C20_PersonStatsList ==
    Built =>
        /\ Len(Report.PersonStats) = Cardinality(persons)
        /\ {Report.PersonStats[i].Person : i \in DOMAIN Report.PersonStats} = persons
        /\ \A p \in persons :
              /\ Idle(p) => ZeroStats(StatsOf(p))
              /\ StatsOf(p).TotalPicks =
                    Cardinality({e \in EntryIds(entries) :
                                    entries[e].picked_by_person_id = p})

\* C20 witness: a report from rows that name a picker and a rater the request
\* does not know, with a known person who picked and one who did nothing
C20_Witness ==
    /\ Built
    /\ \E e \in EntryIds(entries) : entries[e].picked_by_person_id \notin persons \cup {NULL}
    /\ \E r \in ratings : r.person_id \notin persons
    /\ \E p, q \in persons : Idle(p) /\ StatsOf(q).TotalPicks > 0

---------------------------------------------------------------------------
\* RatingHandler.SaveRatings: POST /entries/{id}/ratings
\*
\* Strings.  A UUID string is "u<n>" and parses to the id n; a form key is the
\* triple of its parts <prefix, inner, suffix>, so that strings.HasPrefix,
\* strings.HasSuffix and the two Trim calls are operations on the key.
\* A float64 is [nan, val]: NaN, or the number val.

MaxFields == 2

\* uuid.Parse taking every string for a UUID
uuidParse_Lenient(s) == [err |-> FALSE, id |-> IF s = "u2" THEN 2 ELSE 1]

\* uuid.Parse: the id, or an error
uuidParse(s) ==
    CASE s = "u1" -> [err |-> FALSE, id |-> 1]
      [] s = "u2" -> [err |-> FALSE, id |-> 2]
      [] OTHER -> [err |-> TRUE, id |-> NULL]

\* the keys a form may hold: rating[<uuid>], rating[<not a uuid>], and a key
\* that is not a rating field
FormKeys ==
    {[prefix |-> "rating[", inner |-> "u1", suffix |-> "]"],
     [prefix |-> "rating[", inner |-> "u2", suffix |-> "]"],
     [prefix |-> "rating[", inner |-> "not-a-uuid", suffix |-> "]"],
     [prefix |-> "", inner |-> "notes", suffix |-> ""]}

FormValues == {"", " ", "7", "10", "11", "-1", "abc", "NaN"}

\* strings.TrimSpace
TrimSpace(s) == IF s = " " THEN "" ELSE s

Float(v) == [nan |-> FALSE, val |-> v]

NaN == [nan |-> TRUE, val |-> 0]

\* strconv.ParseFloat(s, 64): "NaN" parses, without an error, to NaN
ParseFloat(s) ==
    CASE s = "7" -> [err |-> FALSE, score |-> Float(7)]
      [] s = "10" -> [err |-> FALSE, score |-> Float(10)]
      [] s = "11" -> [err |-> FALSE, score |-> Float(11)]
      [] s = "-1" -> [err |-> FALSE, score |-> Float(0 - 1)]
      [] s = "NaN" -> [err |-> FALSE, score |-> NaN]
      [] OTHER -> [err |-> TRUE, score |-> Float(0)]

\* float64 < and >: every comparison with NaN is false
FloatLess(a, b) == ~a.nan /\ ~b.nan /\ a.val < b.val

FloatGreater(a, b) == FloatLess(b, a)

\* err != nil || score < 0.0 || score > 10.0
InvalidScore(parsed) ==
    \/ parsed.err
    \/ FloatLess(parsed.score, Float(0))
    \/ FloatGreater(parsed.score, Float(10))

\* ratings_score_check: CHECK (score >= 0.0 AND score <= 10.0); PostgreSQL
\* orders NaN above every number, so NaN <= 10.0 is false
ratings_score_check(s) == ~s.nan /\ s.val >= 0 /\ s.val <= 10

\* the forms of a request: at most MaxFields fields
Forms ==
    UNION {[K -> FormValues] : K \in {K \in SUBSET FormKeys : Cardinality(K) <= MaxFields}}

\* the requests: a well-formed one for each form, one with an id that is not a
\* UUID, one whose body r.ParseForm rejects
SaveRatingsRequests ==
    {[id |-> "u1", body |-> "ok", form |-> f] : f \in Forms}
    \cup {[id |-> "not-a-uuid", body |-> "ok", form |-> f] : f \in {f \in Forms : DOMAIN f = {}}}
    \cup {[id |-> "u1", body |-> "malformed", form |-> f] : f \in {f \in Forms : DOMAIN f = {}}}

\* the database a request meets: two persons; entry 1 or no entry; entry 1
\* rated by nobody, by person 1, or by both
SaveRatingsTables ==
    {[persons |-> {1, 2},
      entries |-> <<[group_number |-> 1, position |-> 1,
                     picked_by_person_id |-> 1, movie_id |-> 1]>>,
      ratings |-> {[person_id |-> p, entry_id |-> 1, score |-> 5] : p \in 1..n}] :
        n \in 0..2}
    \cup {[persons |-> {1, 2}, entries |-> <<>>, ratings |-> {}]}

\* one call of a repository, as the stubs of the tests count them
Call(op, person, s, result) ==
    [op |-> op, person |-> person, score |-> s, result |-> result]

CallsOf(op) == {i \in DOMAIN calls : calls[i].op = op}

\* ratingRepo.Upsert on the table: INSERT ... ON CONFLICT (person_id,
\* entry_id) DO UPDATE
Upsert(R, p, e, s) ==
    {r \in R : ~(r.person_id = p /\ r.entry_id = e)}
    \cup {[person_id |-> p, entry_id |-> e, score |-> s.val]}

\* ratingRepo.Delete on the table
Delete(R, p, e) == {r \in R : ~(r.person_id = p /\ r.entry_id = e)}

\* the outcomes of a call that writes: it succeeds, it fails, or the
\* request's context is cancelled (context.Canceled, DeadlineExceeded).  A
\* write succeeds only where the constraints of the table allow the row.
WriteOutcomes(allowed) ==
    (IF allowed THEN {"ok"} ELSE {}) \cup {"error", "canceled"}

\* entryRepo.GetByID: the entry, nil for an id without a row, or an error
GetByID(E, id) == (IF id \in EntryIds(E) THEN {"ok"} ELSE {"nil"}) \cup {"error"}

InitSaveRatings ==
    /\ \E t \in SaveRatingsTables :
          /\ persons = t.persons
          /\ entries = t.entries
          /\ ratings = t.ratings
    /\ statsData = <<>>
    /\ request \in SaveRatingsRequests
    /\ pending = {}
    /\ existingRatings = {}
    /\ calls = <<>>
    /\ status = 0
    /\ pc = "start"
    /\ NoUpdates
    /\ NoPage

\* lines 48-79: the id, the form, the first fetch of the entry and the
\* existingRatings map
SaveRatings_Fetch ==
    /\ UNCHANGED <<repoVars, domVars>>
    /\ pc = "start"
    /\ UNCHANGED <<dbVars, statsData, request>>
    /\ LET parsed == uuidParse(request.id) IN
       IF parsed.err \/ request.body # "ok"
       THEN /\ status' = 400
            /\ pc' = "done"
            /\ UNCHANGED <<pending, existingRatings, calls>>
       ELSE \E result \in GetByID(entries, parsed.id) :
            /\ calls' = Append(calls, Call("GetByID", NULL, Float(0), result))
            /\ status' = CASE result = "error" -> 500
                            [] result = "nil" -> 404
                            [] OTHER -> status
            /\ pc' = IF result = "ok" THEN "fields" ELSE "done"
            /\ existingRatings' =
                  IF result = "ok"
                  THEN {r.person_id : r \in RatingsOf(ratings, parsed.id)}
                  ELSE existingRatings
            /\ pending' = IF result = "ok" THEN DOMAIN request.form ELSE pending

\* the loop going on after a write that failed
AfterWrite_GoingOn(outcome, key) ==
    /\ pending' = pending \ {key}
    /\ UNCHANGED status
    /\ pc' = "fields"

\* the response to the outcome of a write: on an error 500, on a cancelled
\* context a return that writes nothing
AfterWrite(outcome, key) ==
    /\ pending' = pending \ {key}
    /\ status' = IF outcome = "error" THEN 500 ELSE status
    /\ pc' = IF outcome = "ok" THEN "fields" ELSE "done"

\* lines 82-134: one iteration of `for key, values := range r.Form`, on
\* whichever key the map yields next
SaveRatings_Field ==
    /\ UNCHANGED <<repoVars, domVars>>
    /\ pc = "fields"
    /\ UNCHANGED <<persons, entries, statsData, request, existingRatings>>
    /\ \E key \in pending :
         LET entryID == uuidParse(request.id).id
             person == uuidParse(key.inner)
             scoreStr == TrimSpace(request.form[key])
             parsed == ParseFloat(scoreStr)
             skip == /\ pending' = pending \ {key}
                     /\ UNCHANGED <<ratings, calls, status, pc>>
         IN
         IF key.prefix # "rating[" \/ key.suffix # "]" THEN skip
         ELSE IF person.err THEN skip
         ELSE IF scoreStr = ""
         THEN IF person.id \in existingRatings
              THEN \E outcome \in WriteOutcomes(TRUE) :
                        /\ calls' = Append(calls, Call("Delete", person.id, Float(0), outcome))
                        /\ ratings' = IF outcome = "ok"
                                      THEN Delete(ratings, person.id, entryID)
                                      ELSE ratings
                        /\ AfterWrite(outcome, key)
              ELSE skip
         ELSE IF InvalidScore(parsed) THEN skip
         ELSE \E outcome \in WriteOutcomes(/\ ratings_score_check(parsed.score)
                                           /\ entryID \in EntryIds(entries)
                                           /\ person.id \in persons) :
                   /\ calls' = Append(calls, Call("Upsert", person.id, parsed.score, outcome))
                   /\ ratings' = IF outcome = "ok"
                                 THEN Upsert(ratings, person.id, entryID, parsed.score)
                                 ELSE ratings
                   /\ AfterWrite(outcome, key)

\* the refetch without its `entry == nil` branch
SaveRatings_Refetch_NilUnchecked ==
    /\ UNCHANGED <<repoVars, domVars>>
    /\ pc = "fields"
    /\ pending = {}
    /\ UNCHANGED <<dbVars, statsData, request, pending, existingRatings>>
    /\ \E result \in GetByID(entries, uuidParse(request.id).id) :
         /\ calls' = Append(calls, Call("GetByID", NULL, Float(0), result))
         /\ status' = IF result = "error" THEN 500 ELSE status
         /\ pc' = IF result = "error" THEN "done" ELSE "persons"

\* lines 136-147: the refetch of the entry after the loop
SaveRatings_Refetch ==
    /\ UNCHANGED <<repoVars, domVars>>
    /\ pc = "fields"
    /\ pending = {}
    /\ UNCHANGED <<dbVars, statsData, request, pending, existingRatings>>
    /\ \E result \in GetByID(entries, uuidParse(request.id).id) :
         /\ calls' = Append(calls, Call("GetByID", NULL, Float(0), result))
         /\ status' = CASE result = "error" -> 500
                         [] result = "nil" -> 404
                         [] OTHER -> status
         /\ pc' = IF result = "ok" THEN "persons" ELSE "done"

\* lines 149-157: the persons, the HX-Trigger header and the rendered row
SaveRatings_Persons ==
    /\ UNCHANGED <<repoVars, domVars>>
    /\ pc = "persons"
    /\ UNCHANGED <<dbVars, statsData, request, pending, existingRatings>>
    /\ \E result \in {"ok", "error"} :
         /\ calls' = Append(calls, Call("GetAll", NULL, Float(0), result))
         /\ status' = IF result = "ok" THEN 200 ELSE 500
    /\ pc' = "done"

\* another request deletes the entry while this one runs (DELETE
\* /api/entries/{id}); its ratings go with it
EntryDeleted ==
    /\ UNCHANGED <<repoVars, domVars>>
    /\ pc \in {"fields", "persons"}
    /\ EntryIds(entries) # {}
    /\ entries' = <<>>
    /\ ratings' = {}
    /\ UNCHANGED <<persons, statsData, httpVars>>

NextSaveRatings ==
    \/ SaveRatings_Fetch
    \/ SaveRatings_Field
    \/ SaveRatings_Refetch
    \/ SaveRatings_Persons
    \/ EntryDeleted

SpecSaveRatings == InitSaveRatings /\ [][NextSaveRatings]_vars

---------------------------------------------------------------------------
\* What the specification says of SaveRatings

\* the first fetch found the entry, so the loop over the form runs
FetchedOk == Len(calls) >= 1 /\ calls[1].result = "ok"

\* the fields the loop has visited
Visited == IF FetchedOk THEN DOMAIN request.form \ pending ELSE {}

\* the calls of Upsert and Delete, and those for person p
Mutations == CallsOf("Upsert") \cup CallsOf("Delete")

MutationsFor(p) == {i \in Mutations : calls[i].person = p}

\* a field rating[<uuid>]
IsRatingOfPerson(key) ==
    key.prefix = "rating[" /\ key.suffix = "]" /\ key.inner \in {"u1", "u2"}

\* an empty (blank) score
IsEmptyScore(v) == v \in {"", " "}

\* the number a decimal string denotes; "abc" and "NaN" denote none
IsNumeric(v) == v \in {"7", "10", "11", "-1"}

NumberOf(v) ==
    CASE v = "7" -> 7 [] v = "10" -> 10 [] v = "11" -> 11 [] v = "-1" -> 0 - 1

IsScoreInRange(v) == IsNumeric(v) /\ NumberOf(v) >= 0 /\ NumberOf(v) <= 10

\* the calls the claim allows for a visited field rating[p] = v
FieldHandledAsSpecified(key) ==
    LET p == uuidParse(key.inner).id
        v == request.form[key]
    IN  CASE IsEmptyScore(v) /\ p \in existingRatings ->
               /\ Cardinality(MutationsFor(p)) = 1
               /\ \A i \in MutationsFor(p) : calls[i].op = "Delete"
          [] IsScoreInRange(v) ->
               /\ Cardinality(MutationsFor(p)) = 1
               /\ \A i \in MutationsFor(p) :
                    calls[i].op = "Upsert" /\ calls[i].score = Float(NumberOf(v))
          [] OTHER -> MutationsFor(p) = {}

\* no repository call of the request failed or found nothing
NoCallFailed == \A i \in DOMAIN calls : calls[i].result = "ok"

FieldsHandledAsSpecified ==
    /\ \A key \in Visited : IsRatingOfPerson(key) => FieldHandledAsSpecified(key)
    /\ \A i \in Mutations :
         \E key \in Visited : IsRatingOfPerson(key) /\ uuidParse(key.inner).id = calls[i].person
    /\ (FetchedOk /\ NoCallFailed /\ pc = "done") =>
         /\ status = 200
         /\ pending = {}
         /\ Cardinality(CallsOf("GetByID")) = 2
         /\ Cardinality(CallsOf("GetAll")) = 1

\* C21: every field rating[personID] is handled on its own: an empty score
\* is exactly one Delete if the person had a rating at the first fetch and
\* no call otherwise, a numeric score in [0, 10] is exactly one Upsert, any
\* other score or a key that is not a UUID is no call and does not fail the
\* request, which still refetches the entry, fetches the persons once and
\* answers 200.
C21_EachFieldOnItsOwn == FieldsHandledAsSpecified

\* a form that spells NaN in a score
HasNaN == \E key \in DOMAIN request.form : request.form[key] = "NaN"

\* C21 holds for every form without a score spelled NaN
C21_EachFieldApartFromNaN == ~HasNaN => FieldsHandledAsSpecified

\* the request of rating_test.go 174-237 in small: a Delete, an Upsert, 200
C21_Witness ==
    /\ pc = "done" /\ status = 200 /\ ~HasNaN
    /\ Cardinality(CallsOf("Delete")) = 1
    /\ Cardinality(CallsOf("Upsert")) = 1

\* a float64 in [0.0, 10.0]
InRange(s) == ~s.nan /\ s.val >= 0 /\ s.val <= 10

\* C22: every score SaveRatings passes to Upsert lies in [0.0, 10.0], for
\* every form value that parses as a float, NaN included.
C22_UpsertedScoresInRange == \A i \in CallsOf("Upsert") : InRange(calls[i].score)

\* the second half of C22: no stored rating is outside [0, 10]
C22_StoredScoresInRange == \A r \in ratings : r.score >= 0 /\ r.score <= 10

\* an Upsert of NaN reached the repository, which the constraint refused
C22_NaNUpserted ==
    \E i \in CallsOf("Upsert") : calls[i].score.nan /\ calls[i].result = "error"

\* the strings that are UUIDs
IsUUID(s) == s \in {"u1", "u2"}

\* C23: an entry id that is not a UUID, or a form that does not parse, is
\* answered 400 before any repository is touched.
C23_BadRequestTouchesNothing ==
    /\ status = 400 => calls = <<>>
    /\ (pc = "done" /\ (~IsUUID(request.id) \/ request.body # "ok")) =>
         status = 400 /\ calls = <<>> /\ ratings \in {t.ratings : t \in SaveRatingsTables}

C23_Witness ==
    pc = "done" /\ status = 400 /\ ~IsUUID(request.id) /\ calls = <<>>

\* the malformed body is answered 400 as well
C23_MalformedWitness ==
    pc = "done" /\ status = 400 /\ request.body = "malformed" /\ calls = <<>>

\* the refetch found no entry
RefetchFoundNothing ==
    \E i \in CallsOf("GetByID") : i > 1 /\ calls[i].result = "nil"

\* C24: an entry present at the first fetch and absent at the refetch is
\* answered 404 after exactly two calls of the entry repository and no
\* fetch of the persons; an entry absent at the first fetch is answered 404
\* without any Upsert or Delete.
C24_MissingEntry ==
    /\ RefetchFoundNothing =>
         /\ status = 404 /\ pc = "done"
         /\ Cardinality(CallsOf("GetByID")) = 2
         /\ CallsOf("GetAll") = {}
    /\ (Len(calls) >= 1 /\ calls[1].result = "nil") =>
         /\ status = 404 /\ pc = "done"
         /\ Mutations = {}

C24_Witness == RefetchFoundNothing /\ status = 404 /\ Mutations # {}

\* the entry is absent at the first fetch
C24_AbsentAtFirstFetch ==
    Len(calls) = 1 /\ calls[1].result = "nil" /\ status = 404 /\ DOMAIN request.form # {}

\* the row of person p on the request's entry
RowsOf(p) == {r \in ratings : r.person_id = p /\ r.entry_id = uuidParse(request.id).id}

\* a mutation that succeeded is in the table for as long as the entry is
StaysApplied(i) ==
    EntryIds(entries) # {} =>
       IF calls[i].op = "Upsert"
       THEN RowsOf(calls[i].person) =
              {[person_id |-> calls[i].person, entry_id |-> uuidParse(request.id).id,
                score |-> calls[i].score.val]}
       ELSE RowsOf(calls[i].person) = {}

\* C26: a failed Upsert or Delete ends the request: with 500 when the error
\* is not a cancellation, with nothing written when it is; no further
\* Upsert or Delete, no refetch and no fetch of the persons follow, and the
\* mutations already applied stay applied.
C26_FailedWriteStopsRequest ==
    /\ \A i \in Mutations :
         /\ calls[i].result = "error" => i = Len(calls) /\ status = 500 /\ pc = "done"
         /\ calls[i].result = "canceled" => i = Len(calls) /\ status = 0 /\ pc = "done"
         /\ calls[i].result = "ok" => StaysApplied(i)

\* a write fails after another was applied, fields still unvisited
C26_Witness ==
    /\ Len(calls) = 3
    /\ calls[2].result = "ok" /\ calls[2].op = "Upsert"
    /\ calls[3].result = "error" /\ calls[3].op \in {"Upsert", "Delete"}
    /\ status = 500
    /\ EntryIds(entries) # {}

\* the cancelled write
C26_CanceledWitness ==
    /\ pending # {} /\ pc = "done" /\ status = 0
    /\ calls[Len(calls)].result = "canceled"

---------------------------------------------------------------------------
\* C25

\* the rounds in which an entry picked by p holds the minimum / maximum
\* position of the round, the minimum and maximum taken over all entries of
\* the round, with a picker or without
RoundsFirstPickedBy(E, p) ==
    {g \in Rounds(E) : \E e \in RoundEntries(E, g) :
        /\ E[e].picked_by_person_id = p
        /\ \A o \in RoundEntries(E, g) : E[e].position <= E[o].position}

RoundsLastPickedBy(E, p) ==
    {g \in Rounds(E) : \E e \in RoundEntries(E, g) :
        /\ E[e].picked_by_person_id = p
        /\ \A o \in RoundEntries(E, g) : E[e].position >= E[o].position}

\* C25: FirstPickCount (LastPickCount) of a person is the number of rounds in
\* which an entry picked by that person holds the minimum (maximum) position
\* of the round, over all entries of the round; the picker of a round's only
\* entry is counted as both first and last.
C25_PickCountsPerPerson ==
    Built =>
        \A p \in persons :
            /\ StatsOf(p).FirstPickCount = Cardinality(RoundsFirstPickedBy(entries, p))
            /\ StatsOf(p).LastPickCount = Cardinality(RoundsLastPickedBy(entries, p))

\* the same for snapshots whose positions are unique within each round
C25_PickCountsPerPersonUniquePositions ==
    UniquePositions(entries) => C25_PickCountsPerPerson

\* a round with one entry, whose picker is counted first and last, beside a
\* round whose first entry has no picker
C25_Witness ==
    /\ Built
    /\ \E g \in Rounds(entries), p \in persons :
          /\ Cardinality(RoundEntries(entries, g)) = 1
          /\ g \in RoundsFirstPickedBy(entries, p) \cap RoundsLastPickedBy(entries, p)
          /\ StatsOf(p).FirstPickCount >= 1
          /\ StatsOf(p).LastPickCount >= 1
    /\ \E g \in Rounds(entries) : \E e \in RoundEntries(entries, g) :
          /\ ~HasPicker(entries, e)
          /\ \A o \in RoundEntries(entries, g) : entries[e].position < entries[o].position \/ o = e
          /\ Cardinality(RoundEntries(entries, g)) >= 2

---------------------------------------------------------------------------
\* EntryRepository.Update and MovieRepository.Update: two calls on one row
\*
\* A column value is a number, NULL for SQL NULL; an input field is a number,
\* NULL for a nil pointer.  The input of an Update has one field per column
\* the Update may set, named as the column.

\* the columns of the UPDATE statement's SET list
SetColumns(repo) ==
    IF repo = "entries" THEN {"group_number", "notes"}
    ELSE {"title", "release_year", "runtime_minutes"}

\* the row before the calls
StoredRow(repo) ==
    IF repo = "entries"
    THEN [movie_id |-> 1, group_number |-> 1, notes |-> NULL]
    ELSE [title |-> 1, release_year |-> NULL, runtime_minutes |-> 1, tmdb_id |-> 1]

\* model.UpdateEntryInput / model.UpdateMovieInput: every field nil or set
UpdateInputs(repo) == [SetColumns(repo) -> {NULL, 2}]

\* the fields an input supplies
Supplied(input) == {c \in DOMAIN input : input[c] # NULL}

\* `if input.X != nil { x = *input.X }` on the row that GetByID returned
Merge(row, input) ==
    [c \in DOMAIN row |-> IF c \in Supplied(input) THEN input[c] ELSE row[c]]

\* UPDATE ... SET <every column of the SET list> = the merged value
Written(current, merged, repo) ==
    [c \in DOMAIN current |-> IF c \in SetColumns(repo) THEN merged[c] ELSE current[c]]

UpdateCalls == {1, 2}

InitUpdate ==
    /\ persons = TwoPersonSnapshot.persons
    /\ entries = TwoPersonSnapshot.entries
    /\ ratings = TwoPersonSnapshot.ratings
    /\ statsData = <<>>
    /\ NoRequest
    /\ NoPage
    /\ \E repo \in {"entries", "movies"} :
          /\ stored \in {<<StoredRow(repo)>>, <<>>}
          /\ \E inputs \in [UpdateCalls -> UpdateInputs(repo)] :
                updates = [u \in UpdateCalls |->
                             [repo |-> repo, input |-> inputs[u], pc |-> "read",
                              row |-> <<>>, result |-> ""]]

\* r.GetByID(ctx, id): entry.go 237-243, movie.go 169-175
Update_Read(u) ==
    /\ updates # <<>>
    /\ updates[u].pc = "read"
    /\ \/ /\ stored = <<>>
          /\ updates' = [updates EXCEPT ![u].pc = "done", ![u].result = "nil"]
       \/ /\ stored # <<>>
          /\ updates' = [updates EXCEPT ![u].pc = "write", ![u].row = stored]
       \/ updates' = [updates EXCEPT ![u].pc = "done", ![u].result = "error"]
    /\ UNCHANGED <<dbVars, statsData, httpVars, domVars, stored>>

\* the merge and the UPDATE ... WHERE id = $1 RETURNING: entry.go 245-272,
\* movie.go 177-237.  Without a row QueryRow(...).Scan returns pgx.ErrNoRows.
Update_Write(u) ==
    /\ updates # <<>>
    /\ updates[u].pc = "write"
    /\ IF stored = <<>>
       THEN /\ updates' = [updates EXCEPT ![u].pc = "done", ![u].result = "error"]
            /\ UNCHANGED stored
       ELSE /\ stored' = <<Written(stored[1], Merge(updates[u].row[1], updates[u].input),
                                   updates[u].repo)>>
            /\ updates' = [updates EXCEPT ![u].pc = "done", ![u].result = "row"]
    /\ UNCHANGED <<dbVars, statsData, httpVars, domVars>>

\* another request deletes the row: entry.go 279-286, movie.go 241
RowDeleted ==
    /\ updates # <<>>
    /\ stored # <<>>
    /\ \E u \in UpdateCalls : updates[u].pc = "write"
    /\ stored' = <<>>
    /\ UNCHANGED <<dbVars, statsData, httpVars, domVars, updates>>

NextUpdate ==
    \/ \E u \in UpdateCalls : Update_Read(u)
    \/ \E u \in UpdateCalls : Update_Write(u)
    \/ RowDeleted

SpecUpdate == InitUpdate /\ [][NextUpdate]_vars

\* both calls returned a row and the row is still there
BothUpdated ==
    /\ updates # <<>>
    /\ \A u \in UpdateCalls : updates[u].result = "row"
    /\ stored # <<>>

\* the two inputs supply no field in common
DisjointInputs == Supplied(updates[1].input) \cap Supplied(updates[2].input) = {}

\* C27: Update changes only the supplied fields and a nil field keeps the
\* value stored at the time of the write, so two Updates of one row with
\* disjoint fields both take effect in the final row; Update of an id
\* without a row returns no row and no error and writes nothing;
\* MovieRepository.Update never changes tmdb_id.
C27_DisjointUpdatesBothApply ==
    /\ (BothUpdated /\ DisjointInputs) =>
          \A c \in DOMAIN stored[1] :
             stored[1][c] =
                IF \E u \in UpdateCalls : c \in Supplied(updates[u].input)
                THEN 2
                ELSE StoredRow(updates[1].repo)[c]
    /\ updates # <<>> =>
          /\ \A u \in UpdateCalls : updates[u].result = "nil" => updates[u].row = <<>>
          /\ stored # <<>> /\ updates[1].repo = "movies" => stored[1].tmdb_id = 1

\* the parts of C27 that do not involve two calls at once: no row, no
\* error and no write for an id without a row; tmdb_id as it was; a column
\* outside the SET list as it was
C27_MissingRowAndOtherColumns ==
    updates # <<>> =>
       /\ \A u \in UpdateCalls : updates[u].result = "nil" => updates[u].row = <<>>
       /\ stored # <<>> =>
             \A c \in DOMAIN stored[1] \ SetColumns(updates[1].repo) :
                stored[1][c] = StoredRow(updates[1].repo)[c]

\* one call alone (the other found no row to read or failed) applies its
\* supplied fields and keeps the others
C27_OneUpdateApplies ==
    (updates # <<>> /\ stored # <<>>) =>
       \A u \in UpdateCalls :
          (updates[u].result = "row" /\ \A o \in UpdateCalls \ {u} : updates[o].result = "error")
             => stored[1] = Merge(StoredRow(updates[u].repo), updates[u].input)

\* the lost update: both calls read, then both wrote
C27_LostUpdate ==
    /\ BothUpdated /\ DisjointInputs
    /\ \E u \in UpdateCalls : \E c \in Supplied(updates[u].input) : stored[1][c] # 2

---------------------------------------------------------------------------
\* static/dragdrop.js: one sortable grid of one group page
\*
\* An item is known by its entry id.  listeners[i] is the number of dragend
\* listeners registered on the element of item i; an htmx swap of the
\* group's section replaces the elements by new ones, without listeners.

MaxItems == 3
MaxSwaps == 1
MaxGestures == 2

\* the group of the page: grid.dataset.group
GroupNum == "1"

\* initGrid: every .draggable-item of the grid gets one more listener of
\* each kind (addEventListener with a new function object each time)
initDragDrop(L) == [i \in DOMAIN L |-> L[i] + 1]

\* the sequence s without its element x
RECURSIVE Without(_, _)
Without(s, x) ==
    IF s = <<>> THEN <<>>
    ELSE IF Head(s) = x THEN Without(Tail(s), x)
    ELSE <<Head(s)>> \o Without(Tail(s), x)

\* the index of x in s
IndexOf(s, x) == CHOOSE i \in DOMAIN s : s[i] = x

\* parentNode.insertBefore(draggedItem, this) and
\* parentNode.insertBefore(draggedItem, this.nextSibling)
InsertBefore(s, x, target, after) ==
    LET rest == Without(s, x)
        k == IndexOf(rest, target) - (IF after THEN 0 ELSE 1)
    IN  SubSeq(rest, 1, k) \o <<x>> \o SubSeq(rest, k + 1, Len(rest))

\* saveOrder: the body of the POST to /api/groups/<groupNum>/reorder
saveOrder(g, groupNum) == [url |-> groupNum, entry_ids |-> g]

\* n requests with the same body
RECURSIVE Repeat(_, _)
Repeat(x, n) == IF n = 0 THEN <<>> ELSE <<x>> \o Repeat(x, n - 1)

InitDragDrop ==
    /\ persons = TwoPersonSnapshot.persons
    /\ entries = TwoPersonSnapshot.entries
    /\ ratings = TwoPersonSnapshot.ratings
    /\ statsData = <<>>
    /\ NoRequest
    /\ NoUpdates
    /\ \E n \in 2..MaxItems :
          /\ grid = [i \in 1..n |-> i]
          /\ listeners = [i \in 1..n |-> 0]
    /\ page = [state |-> "loading", swaps |-> 0]
    /\ draggedItem = NULL
    /\ gestures = 0
    /\ posts = <<>>

\* line 111: DOMContentLoaded runs initDragDrop
DOMContentLoaded ==
    /\ page.state = "loading"
    /\ listeners' = initDragDrop(listeners)
    /\ page' = [page EXCEPT !.state = "settled"]
    /\ UNCHANGED <<dbVars, statsData, httpVars, repoVars, grid, draggedItem, gestures, posts>>

\* line 114: htmx swapped content into the page, the section of the grid
\* (new elements for its items) or something else, and htmx:afterSwap runs
\* initDragDrop
HtmxAfterSwap ==
    /\ page.state = "settled"
    /\ page.swaps < MaxSwaps
    /\ draggedItem = NULL
    /\ \E replaced \in BOOLEAN :
          listeners' = initDragDrop(IF replaced THEN [i \in DOMAIN listeners |-> 0]
                                    ELSE listeners)
    /\ page' = [state |-> "swapped", swaps |-> page.swaps + 1]
    /\ UNCHANGED <<dbVars, statsData, httpVars, repoVars, grid, draggedItem, gestures, posts>>

\* line 115: htmx:afterSettle, which follows every swap, runs initDragDrop
HtmxAfterSettle ==
    /\ page.state = "swapped"
    /\ listeners' = initDragDrop(listeners)
    /\ page' = [page EXCEPT !.state = "settled"]
    /\ UNCHANGED <<dbVars, statsData, httpVars, repoVars, grid, draggedItem, gestures, posts>>

\* lines 20-30: dragstart on an item that initGrid made draggable
DragStart ==
    /\ draggedItem = NULL
    /\ gestures < MaxGestures
    /\ \E i \in DOMAIN listeners :
          /\ listeners[i] >= 1
          /\ draggedItem' = i
    /\ UNCHANGED <<dbVars, statsData, httpVars, repoVars, grid, listeners, page, gestures, posts>>

\* lines 44-62: dragover on another item moves the dragged item before it
\* or after it
DragOver ==
    /\ draggedItem # NULL
    /\ \E target \in DOMAIN listeners \ {draggedItem}, after \in BOOLEAN :
          /\ listeners[target] >= 1
          /\ grid' = InsertBefore(grid, draggedItem, target, after)
    /\ UNCHANGED <<dbVars, statsData, httpVars, repoVars, listeners, page, draggedItem, gestures, posts>>

\* lines 32-42 and 79-89: dragend on the dragged item; every dragend
\* listener of the element runs saveOrder, which sends one POST
DragEnd ==
    /\ draggedItem # NULL
    /\ posts' = posts \o Repeat(saveOrder(grid, GroupNum), listeners[draggedItem])
    /\ gestures' = gestures + 1
    /\ draggedItem' = NULL
    /\ UNCHANGED <<dbVars, statsData, httpVars, repoVars, grid, listeners, page>>

NextDragDrop ==
    \/ DOMContentLoaded
    \/ HtmxAfterSwap
    \/ HtmxAfterSettle
    \/ DragStart
    \/ DragOver
    \/ DragEnd

SpecDragDrop == InitDragDrop /\ [][NextDragDrop]_vars

\* each gesture sent one POST and the last POST carries the DOM order
OnePostPerGesture ==
    /\ Len(posts) = gestures
    /\ (gestures >= 1 /\ draggedItem = NULL) =>
          posts[Len(posts)] = [url |-> GroupNum, entry_ids |-> grid]

\* C28: every completed drag gesture (one dragend) sends exactly one POST
\* reorder request for the grid, with the ids of all its draggable items in
\* DOM order, however many htmx:afterSwap and htmx:afterSettle events re-ran
\* initDragDrop since the page was loaded.
C28_OnePostPerGesture == OnePostPerGesture

\* C28 before the first htmx event
C28_OnePostPerGestureWithoutSwaps == page.swaps = 0 => OnePostPerGesture

\* a gesture after one swap of the section sends two POSTs
C28_TwoPostsForOneGesture ==
    /\ page.swaps = 1 /\ gestures = 1 /\ Len(posts) >= 2

\* a gesture before any swap that changed the order
C28_ReorderedWithoutSwaps ==
    /\ page.swaps = 0 /\ gestures = 1 /\ Len(posts) = 1
    /\ grid # [i \in DOMAIN grid |-> i]

---------------------------------------------------------------------------
\* EntryHandler.Update (PUT /api/entries/{id}) and EntryHandler.Reorder
\* (POST /api/groups/{num}/reorder)
\*
\* A pointer field of an input is <<>> for nil and <<v>> for a pointer to v.

MaxIds == 2

\* strconv.Atoi
Atoi(s) ==
    CASE s = "1" -> [err |-> FALSE, val |-> 1]
      [] s = "2" -> [err |-> FALSE, val |-> 2]
      [] s = "-1" -> [err |-> FALSE, val |-> 0 - 1]
      [] OTHER -> [err |-> TRUE, val |-> 0]

\* r.FormValue(key): the first value of the key, "" without the key
FormValue(form, key) == IF key \in DOMAIN form THEN form[key] ELSE ""

\* entry.go 47-52: input.GroupNumber
GroupNumberOf(form) ==
    LET groupStr == FormValue(form, "group_number") IN
    IF groupStr # "" /\ ~Atoi(groupStr).err THEN <<Atoi(groupStr).val>> ELSE <<>>

\* picked_by_person_id with an empty value read as an absent field
PickedByPersonIDOf_EmptyIsAbsent(form) ==
    LET pickedByStr == FormValue(form, "picked_by_person_id") IN
    IF pickedByStr = "" THEN [err |-> FALSE, ptr |-> <<>>]
    ELSE IF uuidParse(pickedByStr).err THEN [err |-> TRUE, ptr |-> <<>>]
    ELSE [err |-> FALSE, ptr |-> <<uuidParse(pickedByStr).id>>]

\* entry.go 54-68: input.PickedByPersonID, or the error of uuid.Parse
PickedByPersonIDOf(form) ==
    LET pickedByStr == FormValue(form, "picked_by_person_id") IN
    IF "picked_by_person_id" \notin DOMAIN form THEN [err |-> FALSE, ptr |-> <<>>]
    ELSE IF pickedByStr = "" THEN [err |-> FALSE, ptr |-> <<NULL>>]
    ELSE IF uuidParse(pickedByStr).err THEN [err |-> TRUE, ptr |-> <<>>]
    ELSE [err |-> FALSE, ptr |-> <<uuidParse(pickedByStr).id>>]

\* the forms of an Update request
UpdateForms ==
    UNION {[K -> {"", "2", "-1", "abc", "u1", "not-a-uuid"}] :
             K \in SUBSET {"group_number", "picked_by_person_id"}}

UpdateRequests ==
    {[handler |-> "Update", id |-> "u1", body |-> "ok", form |-> f] : f \in UpdateForms}
    \cup {[handler |-> "Update", id |-> "not-a-uuid", body |-> "ok", form |-> f] :
            f \in {f \in UpdateForms : DOMAIN f = {}}}
    \cup {[handler |-> "Update", id |-> "u1", body |-> "malformed", form |-> f] :
            f \in {f \in UpdateForms : DOMAIN f = {}}}

\* the lists of at most n id strings
IdLists(n) == UNION {[1..k -> {"u1", "u2", "not-a-uuid"}] : k \in 0..n}

\* the bodies of a Reorder request: the text {"entry_ids": [...]}, alone or
\* followed by text that is not JSON; a text cut short; an object whose
\* entry_ids is not a list of strings
ReorderBodies ==
    {[text |-> "object", entry_ids |-> ids, trailing |-> t] :
        ids \in IdLists(MaxIds), t \in BOOLEAN}
    \cup {[text |-> "truncated", entry_ids |-> <<>>, trailing |-> FALSE],
          [text |-> "mistyped", entry_ids |-> <<>>, trailing |-> FALSE]}

\* json.NewDecoder(r.Body).Decode(&req): reads the first JSON value of the
\* body and leaves what follows it unread
Decode(body) ==
    IF body.text = "object" THEN [err |-> FALSE, EntryIDs |-> body.entry_ids]
    ELSE [err |-> TRUE, EntryIDs |-> <<>>]

ReorderRequests ==
    {[handler |-> "Reorder", num |-> n, body |-> b] :
        n \in {"1", "abc"}, b \in ReorderBodies}

InitEntryHandler ==
    /\ persons = TwoPersonSnapshot.persons
    /\ entries = TwoPersonSnapshot.entries
    /\ ratings = TwoPersonSnapshot.ratings
    /\ statsData = <<>>
    /\ NoUpdates
    /\ NoPage
    /\ request \in UpdateRequests \cup ReorderRequests
    /\ pending = {}
    /\ existingRatings = {}
    /\ calls = <<>>
    /\ status = 0
    /\ pc = "start"

\* entry.go 31-80
EntryHandler_Update ==
    /\ pc = "start"
    /\ request.handler = "Update"
    /\ pc' = "done"
    /\ IF uuidParse(request.id).err \/ request.body # "ok"
          \/ PickedByPersonIDOf(request.form).err
       THEN status' = 400 /\ UNCHANGED calls
       ELSE \E result \in {"ok", "error"} :
               /\ calls' = Append(calls,
                     [op |-> "Update", id |-> uuidParse(request.id).id,
                      input |-> [GroupNumber |-> GroupNumberOf(request.form),
                                 PickedByPersonID |-> PickedByPersonIDOf(request.form).ptr],
                      result |-> result])
               /\ status' = IF result = "ok" THEN 200 ELSE 500
    /\ UNCHANGED <<dbVars, statsData, request, pending, existingRatings, repoVars, domVars>>

\* entry.go 130-165
EntryHandler_Reorder ==
    /\ pc = "start"
    /\ request.handler = "Reorder"
    /\ pc' = "done"
    /\ LET req == Decode(request.body) IN
       IF \/ Atoi(request.num).err
          \/ req.err
          \/ \E i \in DOMAIN req.EntryIDs : uuidParse(req.EntryIDs[i]).err
       THEN status' = 400 /\ UNCHANGED calls
       ELSE \E result \in {"ok", "error"} :
               /\ calls' = Append(calls,
                     [op |-> "ReorderEntries", group |-> Atoi(request.num).val,
                      ids |-> [i \in DOMAIN req.EntryIDs |-> uuidParse(req.EntryIDs[i]).id],
                      result |-> result])
               /\ status' = IF result = "ok" THEN 200 ELSE 500
    /\ UNCHANGED <<dbVars, statsData, request, pending, existingRatings, repoVars, domVars>>

NextEntryHandler == EntryHandler_Update \/ EntryHandler_Reorder

SpecEntryHandler == InitEntryHandler /\ [][NextEntryHandler]_vars

\* an Update request that is done and whose id and body were accepted
UpdateDone ==
    /\ pc = "done" /\ request.handler = "Update"
    /\ IsUUID(request.id) /\ request.body = "ok"

\* the picker field of the form: absent, empty, a UUID, or something else
PickerField ==
    IF "picked_by_person_id" \notin DOMAIN request.form THEN "absent"
    ELSE IF request.form["picked_by_person_id"] = "" THEN "empty"
    ELSE IF IsUUID(request.form["picked_by_person_id"]) THEN "uuid"
    ELSE "invalid"

\* the integers written in decimal
IsInteger(s) == s \in {"1", "2", "-1"}

\* C29: picked_by_person_id is three-valued: absent leaves the picker
\* unspecified in the input, empty asks to clear it (nil UUID), a UUID sets
\* it; any other value is answered 400 without a call of Update; a
\* group_number that is not a number is dropped and the update proceeds.
C29_ThreeValuedPicker ==
    UpdateDone =>
       /\ PickerField = "invalid" => status = 400 /\ calls = <<>>
       /\ PickerField # "invalid" =>
             /\ Len(calls) = 1
             /\ calls[1].op = "Update"
             /\ calls[1].input.PickedByPersonID =
                   CASE PickerField = "absent" -> <<>>
                     [] PickerField = "empty" -> <<NULL>>
                     [] OTHER -> <<1>>
             /\ ("group_number" \in DOMAIN request.form
                   /\ ~IsInteger(request.form["group_number"]))
                  => calls[1].input.GroupNumber = <<>>
             /\ status = IF calls[1].result = "ok" THEN 200 ELSE 500

\* the picker cleared, beside a group_number that is not a number
C29_Witness ==
    /\ UpdateDone
    /\ PickerField = "empty"
    /\ "group_number" \in DOMAIN request.form /\ request.form["group_number"] = "abc"
    /\ Len(calls) = 1 /\ calls[1].input.PickedByPersonID = <<NULL>>
    /\ calls[1].input.GroupNumber = <<>>
    /\ status = 200

\* the picker field that is not a UUID
C29_InvalidPicker == UpdateDone /\ PickerField = "invalid" /\ status = 400

\* a Reorder request that is done
ReorderDone == pc = "done" /\ request.handler = "Reorder"

\* the body is one JSON document
IsValidJSON(body) == body.text \in {"object", "mistyped"} /\ ~body.trailing

\* entry_ids is a list of UUIDs
AllUUIDs(body) ==
    /\ body.text = "object"
    /\ \A i \in DOMAIN body.entry_ids : IsUUID(body.entry_ids[i])

\* what the claim asks of a finished Reorder request
ReorderedAsSpecified ==
    IF ~IsInteger(request.num) \/ ~IsValidJSON(request.body) \/ ~AllUUIDs(request.body)
    THEN status = 400 /\ calls = <<>>
    ELSE /\ Len(calls) = 1
         /\ calls[1].op = "ReorderEntries"
         /\ calls[1].ids = [i \in DOMAIN request.body.entry_ids |->
                              IF request.body.entry_ids[i] = "u1" THEN 1 ELSE 2]
         /\ status = IF calls[1].result = "ok" THEN 200 ELSE 500

\* C30: Reorder validates the whole request before it applies anything: a
\* group number that is not an integer, a body that is not valid JSON or an
\* entry id that is not a UUID is answered 400 and ReorderEntries is never
\* called; otherwise ReorderEntries is called exactly once with all ids in
\* the order of the request, and its failure is answered 500.
C30_ValidatedBeforeApplied == ReorderDone => ReorderedAsSpecified

\* C30 for every body that is not a JSON document followed by other text
C30_ValidatedBeforeAppliedNoTrailingText ==
    (ReorderDone /\ ~request.body.trailing) => ReorderedAsSpecified

\* a body with text after its JSON document is applied
C30_TrailingTextApplied ==
    ReorderDone /\ request.body.trailing /\ Len(calls) = 1 /\ status = 200

\* a valid id before an invalid one: nothing is applied
C30_LaterIdInvalid ==
    /\ ReorderDone /\ ~request.body.trailing /\ IsInteger(request.num)
    /\ request.body.entry_ids = <<"u1", "not-a-uuid">>
    /\ status = 400 /\ calls = <<>>

====
